---- MODULE Spec2Model ----
(***************************************************************************)
(* Attendance & roster synchronisation of the Smart Course Management      *)
(* System: AttendanceService (src/src/services/attendanceService.ts)       *)
(* against the attendance_records table and the browser's localStorage.    *)
(*                                                                         *)
(* Every service method is an async function: the code up to its first     *)
(* await runs atomically (single-threaded runtime), every awaited remote   *)
(* request is one step of its own, and calls in flight interleave at the   *)
(* awaits.  A slot p of Procs holds one call: its position pc[p], its      *)
(* arguments and locals call[p], its return value result[p] and the        *)
(* side effects it has issued so far, in order, trace[p].                  *)
(***************************************************************************)
EXTENDS Integers, Sequences, FiniteSets, TLC

\* ------------------------------------------------------------------ bounds
MaxCalls == 4          \* calls started in one behaviour of Spec
MaxFrameCalls == 3     \* calls started in one behaviour of SpecFrame
MaxConcCalls == 3      \* calls started in one behaviour of SpecConc
MaxPayload == 2        \* length of a markAttendance payload
MaxDatesCalls == 4     \* calls started in one behaviour of SpecDates
MaxRecords == 3        \* records handed to the statistics in SpecStats
MaxViewCalls == 5      \* calls started in one behaviour of SpecView
MaxDateCalls == 4      \* calls started in one behaviour of SpecDate
MaxAppCalls == 5       \* calls, sign-ins and signals in one behaviour of SpecApp
MaxLastCalls == 3      \* calls started in one behaviour of SpecLast
MaxMirrorCalls == 3    \* calls started in one behaviour of SpecMirror
MaxReachCalls == 3     \* calls started in one behaviour of SpecReach

\* ---------------------------------------------------------------- universe
Procs == {1, 2}
Courses == {"C1", "C2"}
Dates == {"2024-01-15", "2024-01-16"}
Students == {"A", "B", "C"}
Statuses == {"present", "absent", "late"}
Outcomes == {"ok", "error", "throw"}

\* JavaScript's undefined / null, and a call that ended by throwing
Undefined == "undefined"
Null == "null"
NoId == << >>

\* the fixed roster of getCourseStudents (ids ...440005 to ...440009)
mockStudents ==
  <<[id |-> "550e8400-e29b-41d4-a716-446655440005", student_id |-> "STU001"],
    [id |-> "550e8400-e29b-41d4-a716-446655440006", student_id |-> "STU002"],
    [id |-> "550e8400-e29b-41d4-a716-446655440007", student_id |-> "STU003"],
    [id |-> "550e8400-e29b-41d4-a716-446655440008", student_id |-> "STU004"],
    [id |-> "550e8400-e29b-41d4-a716-446655440009", student_id |-> "STU005"]>>

VARIABLES remote, localStorage, pc, call, result, trace, budget

\* The course-management view (CourseManagementModal): `modal` is its React
\* state, `shown` what its last render put in the statistics panel and in the
\* rows of the student list.  An event handler or effect of the view is an
\* async function too: task[p] is the handler whose service calls run in slot
\* p, with the values its closure captured.  `app` is the state of the
\* AppProvider: the signed-in user and the change-feed channels.  `page` is
\* the React state of the Attendance page.
VARIABLES modal, shown, task, app, page

viewVars == <<modal, shown, task, app, page>>

vars ==
  <<remote, localStorage, pc, call, result, trace, budget, modal, shown, task,
    app, page>>

\* ------------------------------------------------------------ local cache
\* the key `attendance_${courseId}_${date}`
storageKey(courseId, date) == <<"attendance", courseId, date>>

StorageKeys == {storageKey(c, d) : c \in Courses, d \in Dates}

\* JSON.parse(localStorage.getItem(key) || '{}'): the object stored under the
\* key, the empty object when there is none.  An object is a function from
\* its keys (student ids) to {status, markedBy}.
EmptyObject == [s \in {} |-> Null]

\* mutant: setItem adds the keys of the object to the object stored
setItemMerged(key, obj) ==
  [localStorage EXCEPT ![key] =
     <<[x \in (DOMAIN obj) \cup (IF @ = << >> THEN {} ELSE DOMAIN @[1]) |->
          IF x \in DOMAIN obj THEN obj[x] ELSE @[1][x]]>>]

\* mutant: setItem stores nothing
setNothing(key, obj) == localStorage

\* localStorage[key] is << >> when the key has no item, else <<object>>
getItem(key) == IF localStorage[key] = << >> THEN EmptyObject ELSE localStorage[key][1]

setItem(key, obj) == [localStorage EXCEPT ![key] = <<obj>>]

\* mutant: the object is replaced by one holding the assigned key only
AssignAlone(obj, k, v) == [x \in {k} |-> v]

\* obj[k] = v
Assign(obj, k, v) == [x \in (DOMAIN obj) \cup {k} |-> IF x = k THEN v ELSE obj[x]]

\* the forEach of markAttendance: localData[record.studentId] = {status, markedBy}
RECURSIVE localDataOf(_, _, _)
localDataOf(attendanceData, markedBy, i) ==
  IF i = 0 THEN EmptyObject
  ELSE Assign(localDataOf(attendanceData, markedBy, i - 1),
              attendanceData[i].studentId,
              [status |-> attendanceData[i].status, markedBy |-> markedBy])

\* ----------------------------------------------------------- remote table
\* A row of attendance_records as the client sees it; the camelCase fields of
\* the AttendanceRecord type are absent from a row (undefined when read).
Row(id, c, s, d, st, m) ==
  [id |-> id, course_id |-> c, student_id |-> s, date |-> d, status |-> st,
   marked_by |-> m, courseId |-> Undefined, studentId |-> Undefined,
   markedBy |-> Undefined]

\* new Date(date)
NewDate(date) == "Date(" \o date \o ")"

\* A record decoded from the local cache: the camelCase fields of the
\* AttendanceRecord type only, id `${courseId}_${studentId}_${date}`.
CacheRecord(c, s, d, st, m) ==
  [id |-> <<c, s, d>>, course_id |-> Undefined,
   student_id |-> Undefined, date |-> NewDate(d), status |-> st,
   marked_by |-> Undefined, courseId |-> c, studentId |-> s, markedBy |-> m]

\* .eq('course_id', c).eq('date', d)
Partition(rows, c, d) == {r \in rows : r.course_id = c /\ r.date = d}

\* .eq('course_id', c).eq('student_id', s).eq('date', d)
Matching(rows, c, s, d) == {r \in Partition(rows, c, d) : r.student_id = s}

\* ids in use anywhere: rows of the table, ids held by calls, rows returned
UsedIds ==
  {r.id : r \in remote}
    \cup {call[p].existingRecord : p \in Procs}
    \cup UNION {{r.id : r \in result[p].records} : p \in Procs}

\* gen_random_uuid(): an id no row has and nobody holds.  Ids are opaque and
\* only compared for equality, so the id of a new row is written as its triple
\* with the least incarnation number that makes it new.
FreshId(used, c, s, d) ==
  <<c, s, d, CHOOSE n \in 1..(Cardinality(used) + 1) :
               /\ <<c, s, d, n>> \notin used
               /\ \A k \in 1..(n - 1) : <<c, s, d, k>> \in used>>

\* the key of a row under UNIQUE(course_id, student_id, date)
Triple(r) == <<r.course_id, r.student_id, r.date>>

\* UNIQUE(course_id, student_id, date): a row with this triple exists
UniqueViolation(rows, c, s, d) == Matching(rows, c, s, d) # {}

\* INSERT of the rows of a payload, one statement, row after row
RECURSIVE InsertRows(_, _, _, _, _, _)
InsertRows(rows, used, c, d, attendanceData, markedBy) ==
  IF attendanceData = << >> THEN rows
  ELSE LET rec == Head(attendanceData)
           id == FreshId(used, c, rec.studentId, d)
       IN InsertRows(rows \cup {Row(id, c, rec.studentId, d, rec.status, markedBy)},
                     used \cup {id}, c, d, Tail(attendanceData), markedBy)

\* mutant: the table has no uniqueness constraint
NeverRejected(rows, c, d, attendanceData) == FALSE

\* the statement is rejected, and inserts nothing, when a row of it violates
\* UNIQUE(course_id, student_id, date) against the table or an earlier row
InsertRejected(rows, c, d, attendanceData) ==
  \/ \E i \in 1..Len(attendanceData) :
       UniqueViolation(rows, c, attendanceData[i].studentId, d)
  \/ \E i, j \in 1..Len(attendanceData) :
       i # j /\ attendanceData[i].studentId = attendanceData[j].studentId

\* the table after an insert statement
Insert(rows, used, c, d, attendanceData, markedBy) ==
  IF InsertRejected(rows, c, d, attendanceData) THEN rows
  ELSE InsertRows(rows, used, c, d, attendanceData, markedBy)

\* mutant: the update leaves the marker of the row as it was
UpdateStatusOnly(rows, id, st, m) ==
  {IF r.id = id THEN [r EXCEPT !.status = st] ELSE r : r \in rows}

\* mutant: the update changes no row
UpdateNothing(rows, id, st, m) == rows

\* mutant: the update has lost its WHERE clause
UpdateEveryRow(rows, id, st, m) ==
  {[r EXCEPT !.status = st, !.marked_by = m] : r \in rows}

\* UPDATE ... SET status, marked_by WHERE id = ...
UpdateById(rows, id, st, m) ==
  {IF r.id = id THEN [r EXCEPT !.status = st, !.marked_by = m] ELSE r : r \in rows}

\* mutant: the delete has lost its filter on the date
DeleteCourse(rows, c, d) == {r \in rows : r.course_id # c}

\* mutant: the delete removes no row
DeleteNothing(rows, c, d) == rows

\* DELETE ... WHERE course_id = c AND date = d
DeletePartition(rows, c, d) == rows \ Partition(rows, c, d)

\* the statistics of the service's getAttendanceStats with no student and no
\* record; a rate is kept as the quotient <<numerator, denominator>>
NoStats ==
  [totalStudents |-> 0, totalRecords |-> 0, present |-> 0, absent |-> 0,
   late |-> 0, presentPercentage |-> <<0, 1>>, attendanceRate |-> <<0, 1>>]

\* ------------------------------------------------------------------ calls
\* What a call has produced: nothing yet, a returned value (a boolean, a set
\* of records or a list of students, by the method), or a thrown exception.
Pending ==
  [state |-> "pending", ok |-> FALSE, records |-> {}, students |-> << >>,
   dates |-> << >>, stats |-> NoStats]
Bool(b) == [Pending EXCEPT !.state = "returned", !.ok = b]
Records(rs) == [Pending EXCEPT !.state = "returned", !.records = rs]
StudentList(ss) == [Pending EXCEPT !.state = "returned", !.students = ss]
DateList(ds) == [Pending EXCEPT !.state = "returned", !.dates = ds]
Stats(st) == [Pending EXCEPT !.state = "returned", !.stats = st]
Threw == [Pending EXCEPT !.state = "threw"]

\* `before` is not a value the code holds: it records the rows a bulk mark
\* found in its (course, date) when it was called, to state what the call did
\* to them
NoCall ==
  [op |-> "none", courseId |-> Null, studentId |-> Null, date |-> Null,
   status |-> Null, markedBy |-> Null, attendanceData |-> << >>,
   existingRecord |-> NoId, before |-> {}]

\* no handler of the view owns the slot
NoTask ==
  [kind |-> "none", step |-> "none", date |-> Null, studentId |-> Null,
   status |-> Null]

\* a slot with no call in flight and no handler
Vacant(p) == pc[p] \in {"idle", "done"} /\ task[p] = NoTask

\* a new call takes the lowest slot that holds no call in flight; a handler
\* makes its calls in its own slot
Free(p) ==
  /\ pc[p] \in {"idle", "done"}
  /\ task[p] = NoTask => \A q \in Procs : q < p => ~Vacant(q)
  /\ budget > 0

\* the payloads of markAttendance over the given students and statuses
Payloads(Ss, Sts) ==
  UNION {[1..n -> [studentId : Ss, status : Sts]] : n \in 0..MaxPayload}

\* what the enrollment join can answer: lists of distinct students
Student(id, student_id) == [id |-> id, student_id |-> student_id]

EnrollmentData ==
  {<< >>, <<Student("A", "STU-A")>>, <<Student("A", "STU-A"), Student("B", "STU-B")>>}

\* the date the view opens on: new Date().toISOString().split('T')[0]
Today == "2024-01-15"

\* the useState initial values of the view, before it is opened
ModalInit ==
  [courseId |-> Null, isOpen |-> FALSE, activeTab |-> "overview",
   students |-> << >>, selectedDate |-> Today, attendanceRecords |-> << >>,
   attendanceDates |-> << >>, isSaving |-> FALSE]

\* currentUser: null
NoUser == [id |-> Null, role |-> Null]

\* the useState initial values of the Attendance page, before it is mounted
PageInit ==
  [mounted |-> FALSE, selectedCourse |-> "", selectedDate |-> Today,
   attendanceRecords |-> << >>, courseStudents |-> << >>,
   attendanceStats |-> [total |-> 0, present |-> 0, late |-> 0, absent |-> 0,
                        presentPercentage |-> 0, attendanceRate |-> 0]]

\* initialState of the AppProvider: nobody signed in, no course; no channel
\* subscribed and no loadCourses in flight
AppInit ==
  [currentUser |-> NoUser, courses |-> << >>, channels |-> {},
   loading |-> << >>]

NotShown == [rendered |-> FALSE]

\* nothing stored, no call made; `calls` more calls may be started
ServiceInit(calls) ==
  /\ budget = calls
  /\ remote = {}
  /\ localStorage = [k \in StorageKeys |-> << >>]
  /\ pc = [p \in Procs |-> "idle"]
  /\ call = [p \in Procs |-> NoCall]
  /\ result = [p \in Procs |-> Pending]
  /\ trace = [p \in Procs |-> << >>]

\* the service as above, the view not opened
InitWith(calls) ==
  /\ ServiceInit(calls)
  /\ modal = ModalInit
  /\ shown = NotShown
  /\ task = [p \in Procs |-> NoTask]
  /\ app = AppInit
  /\ page = PageInit

Init == InitWith(MaxCalls)

\* trace[p]: the requests the call has made, in order, each with its response
\* ("pending" until it resolves)
Event(req, res) == [req |-> req, res |-> res]

Resolved(tr, res) == [tr EXCEPT ![Len(tr)].res = res]

Return(p, value) ==
  /\ pc' = [pc EXCEPT ![p] = "done"]
  /\ result' = [result EXCEPT ![p] = value]

\* the request in flight resolves with `res` and the call ends
Finish(p, res, value) ==
  /\ trace' = [trace EXCEPT ![p] = Resolved(@, res)]
  /\ Return(p, value)

\* the request in flight resolves with `res` and the call issues `req`
Continue(p, res, label, req) ==
  /\ trace' = [trace EXCEPT ![p] = Append(Resolved(@, res), Event(req, "pending"))]
  /\ pc' = [pc EXCEPT ![p] = label]
  /\ UNCHANGED result

\* mutant: a failed remote write is reported to the caller
ReportFailure(failed) == Bool(~failed)

\* what a mark operation returns once its remote part is over: the inner
\* catch only warns, so true whether or not a request failed
AfterRemote(failed) == Bool(TRUE)

\* the outer catch: a failure outside the remote part returns false
OuterCatch == Bool(FALSE)

\* ---- markSingleAttendance
\* up to the first await: the cache write, then the existence check is issued;
\* setItem throwing (quota) is caught by the outer try
markSingleAttendance(p, courseId, studentId, date, status, markedBy, setItemOk) ==
  /\ Free(p)
  /\ budget' = budget - 1
  /\ call' = [call EXCEPT ![p] =
       [NoCall EXCEPT !.op = "markSingleAttendance", !.courseId = courseId,
                      !.studentId = studentId, !.date = date,
                      !.status = status, !.markedBy = markedBy]]
  /\ IF setItemOk
     THEN /\ localStorage' = setItem(storageKey(courseId, date),
                Assign(getItem(storageKey(courseId, date)), studentId,
                       [status |-> status, markedBy |-> markedBy]))
          /\ trace' = [trace EXCEPT ![p] =
                <<Event("setItem", "ok"), Event("select", "pending")>>]
          /\ pc' = [pc EXCEPT ![p] = "select"]
          /\ result' = [result EXCEPT ![p] = Pending]
     ELSE /\ UNCHANGED localStorage
          /\ trace' = [trace EXCEPT ![p] = <<Event("setItem", "throw")>>]
          /\ Return(p, OuterCatch)
  /\ UNCHANGED remote

\* the row .single() yields: the id of the one matching row, NoId when the
\* request failed or no row matches (the error is not looked at)
SelectSingle(rows, outcome, c, s, d) ==
  IF outcome = "ok" /\ Cardinality(Matching(rows, c, s, d)) = 1
  THEN (CHOOSE r \in Matching(rows, c, s, d) : TRUE).id
  ELSE NoId

\* the existence check resolves: update when a row was found, insert
\* otherwise; a thrown request is caught by the inner try
singleSelect(p, outcome) ==
  /\ pc[p] = "select"
  /\ LET c == call[p]
         existingRecord == SelectSingle(remote, outcome, c.courseId,
                                        c.studentId, c.date)
     IN IF outcome = "throw"
        THEN /\ Finish(p, "throw", AfterRemote(TRUE))
             /\ UNCHANGED call
        ELSE /\ call' = [call EXCEPT ![p].existingRecord = existingRecord]
             /\ IF existingRecord # NoId
                THEN Continue(p, "ok", "update", "update")
                ELSE Continue(p, IF outcome = "ok" THEN "none" ELSE "error",
                              "insert", "insert")
  /\ UNCHANGED <<remote, localStorage, budget>>

singleUpdate(p, outcome) ==
  /\ pc[p] = "update"
  /\ remote' = IF outcome = "ok"
               THEN UpdateById(remote, call[p].existingRecord, call[p].status,
                               call[p].markedBy)
               ELSE remote
  /\ Finish(p, outcome, AfterRemote(outcome # "ok"))
  /\ UNCHANGED <<localStorage, call, budget>>

\* mutant: the store serializes the writers of a partition, and rejects the
\* insert of a single mark while a bulk mark of the partition is between its
\* delete and its insert
singleInsertSerialized(p, outcome) ==
  /\ pc[p] = "insert"
  /\ LET c == call[p]
         data == <<[studentId |-> c.studentId, status |-> c.status]>>
         rejected == \/ InsertRejected(remote, c.courseId, c.date, data)
                     \/ \E q \in Procs : /\ pc[q] = "bulkInsert"
                                         /\ call[q].courseId = c.courseId
                                         /\ call[q].date = c.date
     IN /\ remote' = IF outcome = "ok" /\ ~rejected
                     THEN Insert(remote, UsedIds, c.courseId, c.date, data,
                                 c.markedBy)
                     ELSE remote
        /\ Finish(p, IF outcome = "ok" /\ rejected THEN "conflict" ELSE outcome,
                  AfterRemote(outcome # "ok" \/ rejected))
  /\ UNCHANGED <<localStorage, call, budget>>

singleInsert(p, outcome) ==
  /\ pc[p] = "insert"
  /\ LET c == call[p]
         data == <<[studentId |-> c.studentId, status |-> c.status]>>
         rejected == InsertRejected(remote, c.courseId, c.date, data)
     IN /\ remote' = IF outcome = "ok"
                     THEN Insert(remote, UsedIds, c.courseId, c.date, data,
                                 c.markedBy)
                     ELSE remote
        /\ Finish(p, IF outcome = "ok" /\ rejected THEN "conflict" ELSE outcome,
                  AfterRemote(outcome # "ok" \/ rejected))
  /\ UNCHANGED <<localStorage, call, budget>>

\* ---- markAttendance
markAttendance(p, courseId, date, attendanceData, markedBy, setItemOk) ==
  /\ Free(p)
  /\ budget' = budget - 1
  /\ call' = [call EXCEPT ![p] =
       [NoCall EXCEPT !.op = "markAttendance", !.courseId = courseId,
                      !.date = date, !.attendanceData = attendanceData,
                      !.markedBy = markedBy,
                      !.before = Partition(remote, courseId, date)]]
  /\ IF setItemOk
     THEN /\ localStorage' = setItem(storageKey(courseId, date),
                localDataOf(attendanceData, markedBy, Len(attendanceData)))
          /\ trace' = [trace EXCEPT ![p] =
                <<Event("setItem", "ok"), Event("delete", "pending")>>]
          /\ pc' = [pc EXCEPT ![p] = "delete"]
          /\ result' = [result EXCEPT ![p] = Pending]
     ELSE /\ UNCHANGED localStorage
          /\ trace' = [trace EXCEPT ![p] = <<Event("setItem", "throw")>>]
          /\ Return(p, OuterCatch)
  /\ UNCHANGED remote

\* the delete resolves; its result is not looked at, so after an error result
\* the insert is issued all the same; a thrown request is caught
bulkDelete(p, outcome) ==
  /\ pc[p] = "delete"
  /\ remote' = IF outcome = "ok"
               THEN DeletePartition(remote, call[p].courseId, call[p].date)
               ELSE remote
  /\ IF outcome = "throw"
     THEN Finish(p, "throw", AfterRemote(TRUE))
     ELSE Continue(p, outcome, "bulkInsert", "insert")
  /\ UNCHANGED <<localStorage, call, budget>>

bulkInsert(p, outcome) ==
  /\ pc[p] = "bulkInsert"
  /\ LET c == call[p]
         rejected == InsertRejected(remote, c.courseId, c.date, c.attendanceData)
     IN /\ remote' = IF outcome = "ok"
                     THEN Insert(remote, UsedIds, c.courseId, c.date,
                                 c.attendanceData, c.markedBy)
                     ELSE remote
        /\ Finish(p, IF outcome = "ok" /\ rejected THEN "conflict" ELSE outcome,
                  AfterRemote(outcome # "ok" \/ rejected))
  /\ UNCHANGED <<localStorage, call, budget>>

\* ---- getAttendanceRecords
\* mutant: the decoded records lose the marker
FallbackNoMarker(courseId, date) ==
  IF date = Undefined THEN {}
  ELSE LET localData == getItem(storageKey(courseId, date))
       IN {CacheRecord(courseId, studentId, date, localData[studentId].status,
                       Undefined) :
             studentId \in DOMAIN localData}

\* the fallback of getAttendanceRecords: Object.entries of the cached object,
\* one record per student id; nothing without a date
Fallback(courseId, date) ==
  IF date = Undefined THEN {}
  ELSE LET localData == getItem(storageKey(courseId, date))
       IN {CacheRecord(courseId, studentId, date, localData[studentId].status,
                       localData[studentId].markedBy) :
             studentId \in DOMAIN localData}

\* .eq('course_id', courseId), and .eq('date', date) when a date is given
Query(rows, courseId, date) ==
  {r \in rows : r.course_id = courseId /\ (date # Undefined => r.date = date)}

\* mutant: the cache is consulted also when the query succeeds with no rows
FallbackWhenEmpty(outcome, rows, courseId, date) ==
  IF outcome = "ok" /\ Query(rows, courseId, date) # {}
  THEN Query(rows, courseId, date)
  ELSE Fallback(courseId, date)

\* what the call returns: the rows of a query that succeeded (`data || []`);
\* on an error result (rethrown) or a thrown request, the decoded cache entry
RecordsResult(outcome, rows, courseId, date) ==
  IF outcome = "ok" THEN Query(rows, courseId, date)
  ELSE Fallback(courseId, date)

getAttendanceRecords(p, courseId, date) ==
  /\ Free(p)
  /\ budget' = budget - 1
  /\ call' = [call EXCEPT ![p] =
       [NoCall EXCEPT !.op = "getAttendanceRecords", !.courseId = courseId,
                      !.date = date]]
  /\ trace' = [trace EXCEPT ![p] = <<Event("query", "pending")>>]
  /\ pc' = [pc EXCEPT ![p] = "records"]
  /\ result' = [result EXCEPT ![p] = Pending]
  /\ UNCHANGED <<remote, localStorage>>

recordsQuery(p, outcome) ==
  /\ pc[p] = "records"
  /\ Finish(p, outcome,
            Records(RecordsResult(outcome, remote, call[p].courseId, call[p].date)))
  /\ UNCHANGED <<remote, localStorage, call, budget>>

\* ---- getCourseStudents
\* mutant: a join that succeeds with no rows yields the empty roster
NoRowsNoRoster(outcome, data) ==
  IF outcome = "ok" THEN data ELSE mockStudents

\* what the call returns: the students of the join's rows, or the mock
\* roster when the join failed, threw or has no rows
StudentsResult(outcome, data) ==
  IF outcome = "ok" /\ Len(data) # 0 THEN data ELSE mockStudents

getCourseStudents(p, courseId) ==
  /\ Free(p)
  /\ budget' = budget - 1
  /\ call' = [call EXCEPT ![p] =
       [NoCall EXCEPT !.op = "getCourseStudents", !.courseId = courseId]]
  /\ trace' = [trace EXCEPT ![p] = <<Event("enrollments", "pending")>>]
  /\ pc' = [pc EXCEPT ![p] = "students"]
  /\ result' = [result EXCEPT ![p] = Pending]
  /\ UNCHANGED <<remote, localStorage>>

\* the enrollment join resolves with `data`, the students of its rows
studentsQuery(p, outcome, data) ==
  /\ pc[p] = "students"
  /\ Finish(p, IF outcome = "ok" /\ Len(data) = 0 THEN "empty" ELSE outcome,
            StudentList(StudentsResult(outcome, data)))
  /\ UNCHANGED <<remote, localStorage, call, budget>>

\* ---- getAttendanceDates
\* the place of a date in the order of dates ('YYYY-MM-DD' strings compare
\* as the dates do)
DateRank(date) ==
  CHOOSE i \in 1..2 : <<"2024-01-15", "2024-01-16">>[i] = date

\* .order('date', { ascending: false }) followed by [...new Set(dates)]: the
\* dates, each once, latest first
RECURSIVE OrderDescending(_)
OrderDescending(ds) ==
  IF ds = {} THEN << >>
  ELSE LET first == CHOOSE d \in ds : \A e \in ds : DateRank(d) >= DateRank(e)
       IN <<first>> \o OrderDescending(ds \ {first})

\* .select('date').eq('course_id', courseId)
DatesOf(rows, courseId) == {r.date : r \in {x \in rows : x.course_id = courseId}}

\* mutant: the course filter is missing
DatesOfAnyCourse(outcome, rows, courseId) ==
  IF outcome = "ok" THEN DateList(OrderDescending({r.date : r \in rows}))
  ELSE Threw

\* what the call produces: the distinct dates, or the error rethrown
DatesResult(outcome, rows, courseId) ==
  IF outcome = "ok" THEN DateList(OrderDescending(DatesOf(rows, courseId)))
  ELSE Threw

\* a call may be started in any slot that holds no call in flight
Idle(p) == pc[p] \in {"idle", "done"} /\ budget > 0

getAttendanceDates(p, courseId) ==
  /\ Idle(p)
  /\ budget' = budget - 1
  /\ call' = [call EXCEPT ![p] =
       [NoCall EXCEPT !.op = "getAttendanceDates", !.courseId = courseId]]
  /\ trace' = [trace EXCEPT ![p] = <<Event("dates", "pending")>>]
  /\ pc' = [pc EXCEPT ![p] = "dates"]
  /\ result' = [result EXCEPT ![p] = Pending]
  /\ UNCHANGED <<remote, localStorage>>

datesQuery(p, outcome) ==
  /\ pc[p] = "dates"
  /\ Finish(p, outcome, DatesResult(outcome, remote, call[p].courseId))
  /\ UNCHANGED <<remote, localStorage, call, budget>>

\* ---- getAttendanceStats (of the service)
\* the statuses of the rows of a course: .select('status').eq('course_id', c)
RowsWithStatus(rows, courseId, status) ==
  Cardinality({r \in rows : r.course_id = courseId /\ r.status = status})

\* the statuses found in the cache entries of the course, of every date
CachedWithStatus(courseId, status) ==
  Cardinality({e \in Dates \X UNION {DOMAIN getItem(storageKey(courseId, d)) : d \in Dates} :
                 /\ e[2] \in DOMAIN getItem(storageKey(courseId, e[1]))
                 /\ getItem(storageKey(courseId, e[1]))[e[2]].status = status})

\* the statistics returned: the size of the roster and the counts by status
\* of the rows, or of the cached marks when the query answered with an error
StatsResult(outcome, rows, courseId, enrolledStudents) ==
  LET Count(status) == IF outcome = "ok"
                       THEN RowsWithStatus(rows, courseId, status)
                       ELSE CachedWithStatus(courseId, status)
      totalRecords == Count("present") + Count("absent") + Count("late")
  IN [totalStudents |-> Len(enrolledStudents),
      totalRecords |-> totalRecords,
      present |-> Count("present"),
      absent |-> Count("absent"),
      late |-> Count("late"),
      presentPercentage |-> IF totalRecords > 0
                            THEN <<100 * Count("present"), totalRecords>>
                            ELSE <<0, 1>>,
      attendanceRate |-> IF totalRecords > 0
                         THEN <<100 * (Count("present") + Count("late")), totalRecords>>
                         ELSE <<0, 1>>]

serviceGetAttendanceStats(p, courseId) ==
  /\ Free(p)
  /\ budget' = budget - 1
  /\ call' = [call EXCEPT ![p] =
       [NoCall EXCEPT !.op = "getAttendanceStats", !.courseId = courseId]]
  /\ trace' = [trace EXCEPT ![p] = <<Event("enrollments", "pending")>>]
  /\ pc' = [pc EXCEPT ![p] = "statsStudents"]
  /\ result' = [result EXCEPT ![p] = Pending]
  /\ UNCHANGED <<remote, localStorage>>

\* this.getCourseStudents(courseId) resolves with enrolledStudents, and the
\* status query is issued
statsStudents(p, outcome, data) ==
  /\ pc[p] = "statsStudents"
  /\ trace' = [trace EXCEPT ![p] =
       Append(Resolved(@, IF outcome = "ok" /\ Len(data) = 0 THEN "empty" ELSE outcome),
              Event("statuses", "pending"))]
  /\ pc' = [pc EXCEPT ![p] = "statsQuery"]
  /\ result' = [result EXCEPT ![p].students = StudentsResult(outcome, data)]
  /\ UNCHANGED <<remote, localStorage, call, budget>>

\* the status query resolves; a thrown request is caught and the roster is
\* asked for again
statsQuery(p, outcome) ==
  /\ pc[p] = "statsQuery"
  /\ IF outcome = "throw"
     THEN Continue(p, outcome, "statsRetry", "enrollments")
     ELSE Finish(p, outcome,
                 Stats(StatsResult(outcome, remote, call[p].courseId,
                                   result[p].students)))
  /\ UNCHANGED <<remote, localStorage, call, budget>>

\* the catch of getAttendanceStats: the default statistics over the roster
statsRetry(p, outcome, data) ==
  /\ pc[p] = "statsRetry"
  /\ Finish(p, IF outcome = "ok" /\ Len(data) = 0 THEN "empty" ELSE outcome,
            Stats([NoStats EXCEPT
                     !.totalStudents = Len(StudentsResult(outcome, data))]))
  /\ UNCHANGED <<remote, localStorage, call, budget>>

\* ------------------------------------------- statistics panel and rows
\* attendanceRecords.filter(r => r.status === status).length
CountStatus(attendanceRecords, status) ==
  Cardinality({i \in 1..Len(attendanceRecords) :
                 attendanceRecords[i].status = status})

\* (num / den * 100).toFixed(1): the decimal numeral with one digit after the
\* point nearest to the value, the larger one on a tie.  (The double that
\* num / den * 100 yields rounds as the exact value does for every den that
\* is not a multiple of 16, the only ones with ties.)
toFixed1(num, den) ==
  LET tenths == (2000 * num + den) \div (2 * den)
  IN ToString(tenths \div 10) \o "." \o ToString(tenths % 10)

\* mutant: the rate is taken over the roster instead of the marked records
RateOverRoster(students, attendanceRecords) ==
  LET present == CountStatus(attendanceRecords, "present")
      late == CountStatus(attendanceRecords, "late")
  IN [totalStudents |-> Len(students),
      markedStudents |-> Len(attendanceRecords),
      present |-> present,
      late |-> late,
      absent |-> CountStatus(attendanceRecords, "absent"),
      unmarked |-> Len(students) - Len(attendanceRecords),
      attendanceRate |-> IF Len(students) > 0
                         THEN toFixed1(present + late, Len(students))
                         ELSE "0"]

getAttendanceStats(students, attendanceRecords) ==
  LET totalStudents == Len(students)
      markedStudents == Len(attendanceRecords)
      present == CountStatus(attendanceRecords, "present")
      late == CountStatus(attendanceRecords, "late")
      absent == CountStatus(attendanceRecords, "absent")
      unmarked == totalStudents - markedStudents
  IN [totalStudents |-> totalStudents,
      markedStudents |-> markedStudents,
      present |-> present,
      late |-> late,
      absent |-> absent,
      unmarked |-> unmarked,
      attendanceRate |-> IF markedStudents > 0
                         THEN toFixed1(present + late, markedStudents)
                         ELSE "0"]

\* attendanceRecords.find(r => r.student_id === studentId): the status of the
\* first such record, null when there is none
getAttendanceStatus(attendanceRecords, studentId) ==
  LET found == {i \in 1..Len(attendanceRecords) :
                  attendanceRecords[i].student_id = studentId}
  IN IF found = {} THEN Null
     ELSE attendanceRecords[CHOOSE i \in found : \A j \in found : i <= j].status

\* what a render of the attendance tab shows: the statistics and, for each
\* student of the roster, the status of the row
Render(m) ==
  [rendered |-> TRUE,
   stats |-> getAttendanceStats(m.students, m.attendanceRecords),
   status |-> [i \in 1..Len(m.students) |->
                 getAttendanceStatus(m.attendanceRecords, m.students[i].id)]]

render ==
  /\ shown = NotShown
  /\ shown' = Render(modal)
  /\ UNCHANGED <<remote, localStorage, pc, call, result, trace, budget, modal,
                 task, app, page>>

\* ------------------------------------------------ course-management view
\* the order in which the result of a read lists its records: rows latest
\* date first (.order('date', { ascending: false })); the order among the
\* rows of one date, and among the entries of a cache object, is the store's
Listings(records) ==
  {rs \in [1..Cardinality(records) -> records] :
     \A i, j \in 1..Cardinality(records) :
       i < j => /\ rs[i] # rs[j]
                /\ \/ rs[i].date = rs[j].date
                   \/ DateRank(rs[i].date) > DateRank(rs[j].date)}

\* the attendance tab is rendered only while the view is open on it
Rendered(m) ==
  IF m.isOpen /\ m.activeTab = "attendance" THEN Render(m) ELSE NotShown

\* a setState of the view, and the render that follows it
SetModal(m) == modal' = m /\ shown' = Rendered(m)

\* a handler at one of its awaits: the selectedDate its closure holds and,
\* for a mark, its arguments
Handler(kind, step, date, studentId, status) ==
  [kind |-> kind, step |-> step, date |-> date, studentId |-> studentId,
   status |-> status]

\* the steps at which a handler awaits a call of the attendance service; it
\* resumes as soon as that call has resolved, before any other event is
\* handled
SlotSteps ==
  {"students", "dates", "records", "write", "reload", "pageRecords",
   "pageStats", "pageStudents"}

Resumes(p) == task[p].step \in SlotSteps /\ pc[p] = "done"

NoneResumes == \A p \in Procs : ~Resumes(p)

\* the calls that the handlers in flight have still to start
Owed ==
  Cardinality({q \in Procs : task[q].step \in {"write", "pageRecords", "pageStats"}})
    + Cardinality({q \in Procs : task[q].step = "pageRecords"})

\* mutant: the roster is fetched in place of the records
loadRoster(p, kind, step, date) ==
  /\ getCourseStudents(p, modal.courseId)
  /\ task' = [task EXCEPT ![p] =
                Handler(kind, step, date, task[p].studentId, task[p].status)]

\* loadAttendance up to its await, called by the handler `kind`; `date` is
\* the selectedDate of the render whose closure the handler is
loadAttendance(p, kind, step, date) ==
  /\ getAttendanceRecords(p, modal.courseId, date)
  /\ task' = [task EXCEPT ![p] =
                Handler(kind, step, date, task[p].studentId, task[p].status)]

\* the date field changes: setSelectedDate, and the effect on [activeTab,
\* courseId, selectedDate, isOpen] of the next render calls loadAttendance
setSelectedDate(p, date) ==
  /\ NoneResumes
  /\ modal.isOpen /\ modal.activeTab = "attendance"
  /\ modal.courseId # Null
  /\ date # modal.selectedDate
  /\ Vacant(p) /\ budget > Owed
  /\ SetModal([modal EXCEPT !.selectedDate = date])
  /\ loadAttendance(p, "loadAttendance", "records", date)
  /\ UNCHANGED <<app, page>>

\* mutant: the response of a read is dropped when its date is no longer the
\* selected one
recordsLoadedIfCurrent(p) ==
  /\ Resumes(p) /\ task[p].step \in {"records", "reload"}
  /\ \E rs \in (IF task[p].date # modal.selectedDate THEN {modal.attendanceRecords}
                ELSE IF result[p].state = "returned"
                THEN Listings(result[p].records) ELSE {<< >>}) :
       SetModal([modal EXCEPT
                   !.attendanceRecords = rs,
                   !.isSaving = IF task[p].kind \in {"markAllPresent", "markAllAbsent"}
                                THEN FALSE ELSE @])
  /\ task' = [task EXCEPT ![p] = NoTask]
  /\ UNCHANGED <<remote, localStorage, pc, call, result, trace, budget, app,
                 page>>

\* the read of loadAttendance resolves: setAttendanceRecords(records), or
\* setAttendanceRecords([]) in its catch; a bulk handler then runs its
\* finally, setIsSaving(false)
recordsLoaded(p) ==
  /\ Resumes(p) /\ task[p].step \in {"records", "reload"}
  /\ \E rs \in (IF result[p].state = "returned"
                THEN Listings(result[p].records) ELSE {<< >>}) :
       SetModal([modal EXCEPT
                   !.attendanceRecords = rs,
                   !.isSaving = IF task[p].kind \in {"markAllPresent", "markAllAbsent"}
                                THEN FALSE ELSE @])
  /\ task' = [task EXCEPT ![p] = NoTask]
  /\ UNCHANGED <<remote, localStorage, pc, call, result, trace, budget, app,
                 page>>

\* a status button of row i: markAttendance(student.id, status) of the view,
\* up to its first await.  (Marks are made with a date in the date field.)
ModalMarkAttendance(p, i, status, setItemOk) ==
  /\ NoneResumes
  /\ modal.isOpen /\ modal.activeTab = "attendance" /\ ~modal.isSaving
  /\ i \in 1..Len(modal.students)
  /\ modal.courseId # Null /\ app.currentUser # NoUser
  /\ modal.selectedDate # Undefined
  /\ Vacant(p) /\ budget > 1 + Owed
  /\ markSingleAttendance(p, modal.courseId, modal.students[i].id,
                          modal.selectedDate, status, app.currentUser.id,
                          setItemOk)
  /\ task' = [task EXCEPT ![p] =
                Handler("markAttendance", "write", modal.selectedDate,
                        modal.students[i].id, status)]
  /\ UNCHANGED <<modal, shown, app, page>>

\* markAllPresent / markAllAbsent up to the first await: setIsSaving(true)
\* and one bulk write with a payload entry per student of the roster
MarkAll(p, kind, status, setItemOk) ==
  /\ NoneResumes
  /\ modal.isOpen /\ modal.activeTab = "attendance" /\ ~modal.isSaving
  /\ modal.courseId # Null /\ app.currentUser # NoUser
  /\ modal.selectedDate # Undefined
  /\ Vacant(p) /\ budget > 1 + Owed
  /\ SetModal([modal EXCEPT !.isSaving = TRUE])
  /\ markAttendance(p, modal.courseId, modal.selectedDate,
                    [i \in 1..Len(modal.students) |->
                       [studentId |-> modal.students[i].id, status |-> status]],
                    app.currentUser.id, setItemOk)
  /\ task' = [task EXCEPT ![p] =
                Handler(kind, "write", modal.selectedDate, Null, status)]
  /\ UNCHANGED <<app, page>>

markAllPresent(p, setItemOk) == MarkAll(p, "markAllPresent", "present", setItemOk)

markAllAbsent(p, setItemOk) == MarkAll(p, "markAllAbsent", "absent", setItemOk)

\* the write of a mark handler resolves: `await loadAttendance()`, whatever
\* the write returned; had the write thrown, the catch would log and a bulk
\* handler run its finally
writeResolved(p) ==
  /\ Resumes(p) /\ task[p].step = "write"
  /\ IF result[p].state = "threw"
     THEN /\ SetModal([modal EXCEPT
                 !.isSaving = IF task[p].kind \in {"markAllPresent", "markAllAbsent"}
                              THEN FALSE ELSE @])
          /\ task' = [task EXCEPT ![p] = NoTask]
          /\ UNCHANGED <<remote, localStorage, pc, call, result, trace, budget>>
     ELSE /\ loadAttendance(p, task[p].kind, "reload", task[p].date)
          /\ UNCHANGED <<modal, shown>>
  /\ UNCHANGED <<app, page>>

\* -------------------------------------------------------- Attendance page
\* the date field of the page changes: setSelectedDate, and the effect on
\* [currentUser, selectedCourse, selectedDate] of the next render calls
\* loadAttendanceRecords for an instructor with a course selected
pageSetSelectedDate(p, date) ==
  /\ NoneResumes
  /\ page.mounted
  /\ date # page.selectedDate
  /\ app.currentUser.role = "instructor" /\ page.selectedCourse # ""
  /\ Vacant(p) /\ budget > 2 + Owed
  /\ page' = [page EXCEPT !.selectedDate = date]
  /\ getAttendanceRecords(p, page.selectedCourse, date)
  /\ task' = [task EXCEPT ![p] =
                Handler("loadAttendanceRecords", "pageRecords", date, Null, Null)]
  /\ UNCHANGED <<modal, shown, app>>

\* loadAttendanceRecords after its first await: setAttendanceRecords, then
\* the statistics of the course are asked of the service
pageRecordsLoaded(p) ==
  /\ Resumes(p) /\ task[p].step = "pageRecords"
  /\ IF result[p].state = "threw"
     THEN /\ task' = [task EXCEPT ![p] = NoTask]
          /\ UNCHANGED <<remote, localStorage, pc, call, result, trace, budget,
                         page>>
     ELSE /\ \E rs \in Listings(result[p].records) :
               page' = [page EXCEPT !.attendanceRecords = rs]
          /\ serviceGetAttendanceStats(p, page.selectedCourse)
          /\ task' = [task EXCEPT ![p].step = "pageStats"]
  /\ UNCHANGED <<modal, shown, app>>

\* after the second await: setAttendanceStats, then, for an instructor, the
\* roster is fetched
pageStatsLoaded(p) ==
  /\ Resumes(p) /\ task[p].step = "pageStats"
  /\ IF result[p].state = "threw"
     THEN /\ task' = [task EXCEPT ![p] = NoTask]
          /\ UNCHANGED <<remote, localStorage, pc, call, result, trace, budget,
                         page>>
     ELSE /\ page' = [page EXCEPT !.attendanceStats = result[p].stats]
          /\ IF app.currentUser.role = "instructor"
             THEN /\ getCourseStudents(p, page.selectedCourse)
                  /\ task' = [task EXCEPT ![p].step = "pageStudents"]
             ELSE /\ task' = [task EXCEPT ![p] = NoTask]
                  /\ UNCHANGED <<remote, localStorage, pc, call, result, trace,
                                 budget>>
  /\ UNCHANGED <<modal, shown, app>>

\* after the third await: setCourseStudents(students)
pageStudentsLoaded(p) ==
  /\ Resumes(p) /\ task[p].step = "pageStudents"
  /\ page' = [page EXCEPT
                !.courseStudents = IF result[p].state = "returned"
                                   THEN result[p].students ELSE @]
  /\ task' = [task EXCEPT ![p] = NoTask]
  /\ UNCHANGED <<remote, localStorage, pc, call, result, trace, budget, modal,
                 shown, app>>

\* ------------------------------------------------------------ AppProvider
\* the accounts, with the role each signed up with (user_metadata.role); the
\* role in the profiles row of an account is what an administrator last set
MetadataRole == [u \in {"I1", "S1"} |-> IF u = "I1" THEN "instructor" ELSE "student"]

Sessions == DOMAIN MetadataRole

Roles == {"student", "instructor"}

\* AuthService.getCurrentUser for the session of account `session` (Null: no
\* session) whose profiles row holds `profileRole`: the user mapped from the
\* profile; when the profile cannot be read, the basic user, whose role is
\* user_metadata.role || 'student'; null when the request throws
getCurrentUser(session, outcome, profileRole) ==
  IF session = Null \/ outcome = "throw" THEN NoUser
  ELSE [id |-> session,
        role |-> IF outcome = "ok" THEN profileRole ELSE MetadataRole[session]]

Channel(topic, filter) == [topic |-> topic, filter |-> filter]

\* the channels the subscriptions effect sets up when it runs for `user`
Subscribe(user) ==
  IF user = NoUser THEN {}
  ELSE {Channel("courses_changes", Null),
        Channel("notifications_changes", user.id)}
       \cup IF user.role = "student"
            THEN {Channel("enrollments_changes", user.id)}
            ELSE {}

\* the auth listener's callback (and initAuth): SET_CURRENT_USER with the
\* user of getCurrentUser, the courses cleared on a logout.  In the render
\* that follows, the subscriptions effect, whose dependency is
\* state.currentUser?.id, runs its cleanup and itself only if the id has
\* changed, and the effect on [state.currentUser, state.isInitialized]
\* starts loadCourses for a user.  (The course-management view is closed
\* before the user changes.)
authStateChange(session, outcome, profileRole) ==
  /\ NoneResumes
  /\ budget > Owed
  /\ ~modal.isOpen /\ \A p \in Procs : task[p] = NoTask
  /\ budget' = budget - 1
  /\ LET user == getCurrentUser(session, outcome, profileRole)
     IN app' = [app EXCEPT
                  !.currentUser = user,
                  !.courses = IF user = NoUser THEN << >> ELSE @,
                  !.channels = IF user.id # app.currentUser.id
                               THEN Subscribe(user) ELSE @,
                  !.loading = IF user # NoUser THEN Append(@, "loadData") ELSE @]
  /\ UNCHANGED <<remote, localStorage, pc, call, result, trace, modal, shown,
                 task, page>>

\* a change-feed signal on a subscribed channel of the courses or the
\* enrollments table: the channel's callback calls loadCourses()
coursesSignal(channel) ==
  /\ NoneResumes
  /\ budget > Owed
  /\ channel \in app.channels
  /\ channel.topic \in {"courses_changes", "enrollments_changes"}
  /\ budget' = budget - 1
  /\ app' = [app EXCEPT !.loading = Append(@, channel.topic)]
  /\ UNCHANGED <<remote, localStorage, pc, call, result, trace, modal, shown,
                 task, page>>

\* mutant: the view that is open reloads its course when the courses arrive
coursesLoadedReloads(i, outcome, courses) ==
  /\ NoneResumes
  /\ i \in 1..Len(app.loading)
  /\ app' = [app EXCEPT
               !.courses = IF outcome = "ok" THEN courses ELSE @,
               !.loading = SubSeq(@, 1, i - 1) \o SubSeq(@, i + 1, Len(@))]
  /\ IF modal.isOpen /\ \E p \in Procs : Vacant(p)
     THEN \E p \in Procs :
            /\ Vacant(p)
            /\ task' = [task EXCEPT ![p] =
                          Handler("loadCourseData", "course", Today, Null, Null)]
     ELSE UNCHANGED task
  /\ UNCHANGED <<remote, localStorage, pc, call, result, trace, budget, modal,
                 shown, page>>

\* the i-th loadCourses in flight resolves: SET_COURSES with the courses
\* read, or SET_ERROR.  No prop and no effect dependency of the
\* course-management view changes with it.
coursesLoaded(i, outcome, courses) ==
  /\ NoneResumes
  /\ i \in 1..Len(app.loading)
  /\ app' = [app EXCEPT
               !.courses = IF outcome = "ok" THEN courses ELSE @,
               !.loading = SubSeq(@, 1, i - 1) \o SubSeq(@, i + 1, Len(@))]
  /\ UNCHANGED <<remote, localStorage, pc, call, result, trace, budget, modal,
                 shown, task, page>>

\* the Courses page sets managingCourseId: the view is mounted with isOpen,
\* and its effect on [isOpen, courseId] calls loadCourseData, which first
\* awaits CourseService.getCourseById
openModal(p, courseId) ==
  /\ NoneResumes
  /\ app.currentUser # NoUser
  /\ ~modal.isOpen
  /\ Vacant(p) /\ \A q \in Procs : q < p => ~Vacant(q)
  /\ budget > 1 + Owed
  /\ SetModal([ModalInit EXCEPT !.courseId = courseId, !.isOpen = TRUE])
  /\ task' = [task EXCEPT ![p] =
                Handler("loadCourseData", "course", Today, Null, Null)]
  /\ UNCHANGED <<remote, localStorage, pc, call, result, trace, budget, app,
                 page>>

\* getCourseById has resolved (it returns the course or null): setCourse,
\* and the roster is fetched
courseLoaded(p) ==
  /\ NoneResumes
  /\ task[p].step = "course"
  /\ getCourseStudents(p, modal.courseId)
  /\ task' = [task EXCEPT ![p].step = "students"]
  /\ UNCHANGED <<modal, shown, app, page>>

\* setStudents(studentsData), or setStudents([]) in the catch; then
\* AssignmentService.getAssignments is awaited
studentsLoaded(p) ==
  /\ Resumes(p) /\ task[p].step = "students"
  /\ SetModal([modal EXCEPT
                 !.students = IF result[p].state = "returned"
                              THEN result[p].students ELSE << >>])
  /\ task' = [task EXCEPT ![p].step = "assignments"]
  /\ UNCHANGED <<remote, localStorage, pc, call, result, trace, budget, app,
                 page>>

\* getAssignments has resolved or thrown: setAssignments, and the marked
\* dates are read
assignmentsLoaded(p) ==
  /\ NoneResumes
  /\ task[p].step = "assignments"
  /\ getAttendanceDates(p, modal.courseId)
  /\ task' = [task EXCEPT ![p].step = "dates"]
  /\ UNCHANGED <<modal, shown, app, page>>

\* setAttendanceDates(dates), or setAttendanceDates([]) in the catch
datesLoaded(p) ==
  /\ Resumes(p) /\ task[p].step = "dates"
  /\ SetModal([modal EXCEPT
                 !.attendanceDates = IF result[p].state = "returned"
                                     THEN result[p].dates ELSE << >>])
  /\ task' = [task EXCEPT ![p] = NoTask]
  /\ UNCHANGED <<remote, localStorage, pc, call, result, trace, budget, app,
                 page>>

\* the attendance tab is selected: setActiveTab, and the effect on
\* [activeTab, courseId, selectedDate, isOpen] calls loadAttendance
setActiveTab(p) ==
  /\ NoneResumes
  /\ modal.isOpen /\ modal.activeTab # "attendance"
  /\ Vacant(p) /\ budget > Owed
  /\ SetModal([modal EXCEPT !.activeTab = "attendance"])
  /\ loadAttendance(p, "loadAttendance", "records", modal.selectedDate)
  /\ UNCHANGED <<app, page>>

\* onClose: managingCourseId is null again and the view is unmounted.  (The
\* view is closed with none of its handlers in flight.)
closeModal ==
  /\ NoneResumes
  /\ modal.isOpen /\ \A p \in Procs : task[p] = NoTask
  /\ SetModal(ModalInit)
  /\ UNCHANGED <<remote, localStorage, pc, call, result, trace, budget, task,
                 app, page>>

\* ------------------------------------------------------------ next state
\* a step of the service made by a caller other than the view
Service(step) == step /\ UNCHANGED viewVars

\* the calls and steps over the given slots and inputs
NextOver(P, Keys, Ss, Sts, Ms, Data) ==
  \/ \E p \in P, k \in Keys, s \in Ss, st \in Sts, m \in Ms, ok \in BOOLEAN :
       Service(markSingleAttendance(p, k[1], s, k[2], st, m, ok))
  \/ \E p \in P, o \in Outcomes : Service(singleSelect(p, o))
  \/ \E p \in P, o \in Outcomes : Service(singleUpdate(p, o))
  \/ \E p \in P, o \in Outcomes : Service(singleInsert(p, o))
  \/ \E p \in P, k \in Keys, data \in Data, m \in Ms, ok \in BOOLEAN :
       Service(markAttendance(p, k[1], k[2], data, m, ok))
  \/ \E p \in P, o \in Outcomes : Service(bulkDelete(p, o))
  \/ \E p \in P, o \in Outcomes : Service(bulkInsert(p, o))
  \/ \E p \in P, k \in Keys : \E d \in {k[2], Undefined} :
       Service(getAttendanceRecords(p, k[1], d))
  \/ \E p \in P, o \in Outcomes : Service(recordsQuery(p, o))
  \/ \E p \in P, k \in Keys : Service(getCourseStudents(p, k[1]))
  \/ \E p \in P, o \in Outcomes, data \in EnrollmentData :
       Service(studentsQuery(p, o, data))

\* one caller at a time on one (course, date), three students
Next == NextOver({1}, {<<"C1", "2024-01-15">>}, Students, Statuses, {"I1"},
                 Payloads(Students, {"absent"}))

Spec == Init /\ [][Next]_vars

\* one caller at a time over three (course, date) keys, two students
FrameKeys ==
  {<<"C1", "2024-01-15">>, <<"C1", "2024-01-16">>, <<"C2", "2024-01-15">>}

NextFrame == NextOver({1}, FrameKeys, {"A", "B"}, {"present", "late"}, {"I1"},
                      Payloads({"A", "B"}, {"absent"}))

SpecFrame == InitWith(MaxFrameCalls) /\ [][NextFrame]_vars

\* two callers interleaving on one (course, date), two students
NextConc == NextOver(Procs, {<<"C1", "2024-01-15">>}, {"A", "B"},
                     {"present", "late"}, {"I1"}, Payloads({"A", "B"}, {"absent"}))

SpecConc == InitWith(MaxConcCalls) /\ [][NextConc]_vars

\* one caller at a time: bulk marks (slot 1) over three (course, date) keys
\* and reads of a course's marked dates (slot 2), no call started while
\* another is in flight
Quiet == \A p \in Procs : pc[p] \in {"idle", "done"}

NextDates ==
  \/ \E k \in FrameKeys, data \in Payloads({"A"}, {"absent"}), ok \in BOOLEAN :
       Quiet /\ Service(markAttendance(1, k[1], k[2], data, "I1", ok))
  \/ \E o \in Outcomes : Service(bulkDelete(1, o))
  \/ \E o \in Outcomes : Service(bulkInsert(1, o))
  \/ \E c \in Courses : Quiet /\ Service(getAttendanceDates(2, c))
  \/ \E o \in Outcomes : Service(datesQuery(2, o))

SpecDates == InitWith(MaxDatesCalls) /\ [][NextDates]_vars

\* the statistics and rows over the rosters and record lists the view can
\* hold: the rows of a read (of one date, or of every date when the date
\* field was cleared: latest date first, one row per student and date) or the
\* records decoded from one cache entry
Rosters ==
  {<< >>, <<Student("A", "STU-A")>>,
   <<Student("A", "STU-A"), Student("B", "STU-B")>>, mockStudents}

ReadRows ==
  {Row(<<"C1", s, d, 1>>, "C1", s, d, st, "I1") :
     s \in {"A", "B"}, d \in Dates, st \in Statuses}

ReadLists ==
  {rs \in UNION {[1..n -> ReadRows] : n \in 0..MaxRecords} :
     \A i, j \in 1..Len(rs) :
       i < j => /\ DateRank(rs[i].date) >= DateRank(rs[j].date)
                /\ Triple(rs[i]) # Triple(rs[j])}

CacheRecords(d) ==
  {CacheRecord("C1", s, d, st, "I1") : s \in {"A", "B"}, st \in Statuses}

CacheLists(d) ==
  {rs \in UNION {[1..n -> CacheRecords(d)] : n \in 0..MaxRecords} :
     \A i, j \in 1..Len(rs) : i < j => rs[i].studentId # rs[j].studentId}

\* the lists a read with the selected date can have put in the view
ListsFor(selectedDate) ==
  IF selectedDate = Undefined THEN ReadLists
  ELSE {rs \in ReadLists : \A i \in 1..Len(rs) : rs[i].date = selectedDate}
         \cup CacheLists(selectedDate)

InitStats ==
  /\ ServiceInit(0)
  /\ shown = NotShown
  /\ task = [p \in Procs |-> NoTask]
  /\ app = AppInit
  /\ page = PageInit
  /\ \E students \in Rosters, selectedDate \in Dates \cup {Undefined} :
       \E attendanceRecords \in ListsFor(selectedDate) :
         modal = [ModalInit EXCEPT !.courseId = "C1", !.isOpen = TRUE,
                                   !.activeTab = "attendance",
                                   !.students = students,
                                   !.selectedDate = selectedDate,
                                   !.attendanceRecords = attendanceRecords]

NextStats == render

SpecStats == InitStats /\ [][NextStats]_vars

\* the course-management view open on the attendance tab of course C1, for a
\* signed-in instructor: marks, date changes and the steps of their calls
Instructor == [id |-> "I1", role |-> "instructor"]

ViewRosters ==
  {<<Student("A", "STU-A")>>, <<Student("A", "STU-A"), Student("B", "STU-B")>>}

InitView ==
  /\ ServiceInit(MaxViewCalls)
  /\ task = [p \in Procs |-> NoTask]
  /\ app = [AppInit EXCEPT !.currentUser = Instructor]
  /\ page = PageInit
  /\ \E students \in ViewRosters :
       modal = [ModalInit EXCEPT !.courseId = "C1", !.isOpen = TRUE,
                                 !.activeTab = "attendance",
                                 !.students = students]
  /\ shown = Rendered(modal)

\* a step of a call made by the view
Awaited(step) == NoneResumes /\ Service(step)

NextView ==
  \/ \E p \in Procs, i \in 1..2, st \in {"present", "late"} :
       ModalMarkAttendance(p, i, st, TRUE)
  \/ \E p \in Procs : markAllPresent(p, TRUE)
  \/ \E p \in Procs : markAllAbsent(p, TRUE)
  \/ \E p \in Procs : writeResolved(p)
  \/ \E p \in Procs, d \in Dates : setSelectedDate(p, d)
  \/ \E p \in Procs : recordsLoaded(p)
  \/ \E p \in Procs, o \in Outcomes : Awaited(singleSelect(p, o))
  \/ \E p \in Procs, o \in Outcomes : Awaited(singleUpdate(p, o))
  \/ \E p \in Procs, o \in Outcomes : Awaited(singleInsert(p, o))
  \/ \E p \in Procs, o \in Outcomes : Awaited(bulkDelete(p, o))
  \/ \E p \in Procs, o \in Outcomes : Awaited(bulkInsert(p, o))
  \/ \E p \in Procs, o \in Outcomes : Awaited(recordsQuery(p, o))

SpecView == InitView /\ [][NextView]_vars

\* a change of the selected date, in the course-management view open on the
\* attendance tab or on the Attendance page with a course selected, over a
\* table that holds some marks
StoredRows ==
  {{},
   {Row(<<"C1", "A", "2024-01-15", 1>>, "C1", "A", "2024-01-15", "present", "I1")},
   {Row(<<"C1", "A", "2024-01-15", 1>>, "C1", "A", "2024-01-15", "present", "I1"),
    Row(<<"C1", "B", "2024-01-16", 1>>, "C1", "B", "2024-01-16", "late", "I1")}}

InitDate ==
  /\ remote \in StoredRows
  /\ localStorage = [k \in StorageKeys |-> << >>]
  /\ pc = [p \in Procs |-> "idle"]
  /\ call = [p \in Procs |-> NoCall]
  /\ result = [p \in Procs |-> Pending]
  /\ trace = [p \in Procs |-> << >>]
  /\ budget = MaxDateCalls
  /\ task = [p \in Procs |-> NoTask]
  /\ app = [AppInit EXCEPT !.currentUser = Instructor]
  /\ \E students \in ViewRosters \cup {mockStudents} :
       \/ /\ modal = [ModalInit EXCEPT !.courseId = "C1", !.isOpen = TRUE,
                                       !.activeTab = "attendance",
                                       !.students = students]
          /\ page = PageInit
       \/ /\ modal = ModalInit
          /\ page = [PageInit EXCEPT !.mounted = TRUE, !.selectedCourse = "C1",
                                     !.courseStudents = students]
  /\ shown = Rendered(modal)

NextDate ==
  \/ \E p \in Procs, d \in Dates \cup {Undefined} : setSelectedDate(p, d)
  \/ \E p \in Procs : recordsLoaded(p)
  \/ \E p \in Procs, d \in Dates \cup {Undefined} : pageSetSelectedDate(p, d)
  \/ \E p \in Procs : pageRecordsLoaded(p)
  \/ \E p \in Procs : pageStatsLoaded(p)
  \/ \E p \in Procs : pageStudentsLoaded(p)
  \/ \E p \in Procs, o \in Outcomes : Awaited(recordsQuery(p, o))
  \/ \E p \in Procs, o \in Outcomes, data \in EnrollmentData :
       Awaited(statsStudents(p, o, data))
  \/ \E p \in Procs, o \in Outcomes : Awaited(statsQuery(p, o))
  \/ \E p \in Procs, o \in Outcomes, data \in EnrollmentData :
       Awaited(statsRetry(p, o, data))
  \/ \E p \in Procs, o \in Outcomes, data \in EnrollmentData :
       Awaited(studentsQuery(p, o, data))

SpecDate == InitDate /\ [][NextDate]_vars

\* signing in and out, the change feed, and the course-management view from
\* its opening to the attendance tab
CourseLists == {<<"C1">>, <<"C1", "C2">>}

NextApp ==
  \/ \E session \in Sessions \cup {Null}, o \in Outcomes, role \in Roles :
       authStateChange(session, o, role)
  \/ \E t \in {"courses_changes", "enrollments_changes"}, f \in Sessions \cup {Null} :
       coursesSignal(Channel(t, f))
  \/ \E i \in 1..MaxAppCalls, o \in {"ok", "error"}, courses \in CourseLists :
       coursesLoaded(i, o, courses)
  \/ \E p \in Procs : openModal(p, "C1")
  \/ \E p \in Procs : courseLoaded(p)
  \/ \E p \in Procs : studentsLoaded(p)
  \/ \E p \in Procs : assignmentsLoaded(p)
  \/ \E p \in Procs : datesLoaded(p)
  \/ \E p \in Procs : setActiveTab(p)
  \/ \E p \in Procs : recordsLoaded(p)
  \/ closeModal
  \/ \E p \in Procs, o \in {"ok", "error"}, data \in EnrollmentData :
       Awaited(studentsQuery(p, o, data))
  \/ \E p \in Procs, o \in {"ok", "error"} : Awaited(datesQuery(p, o))
  \/ \E p \in Procs, o \in {"ok", "error"} : Awaited(recordsQuery(p, o))

SpecApp == InitWith(MaxAppCalls) /\ [][NextApp]_vars

\* one caller at a time on one (course, date), two students, two markers
Markers == {"I1", "I2"}

NextLast == NextOver({1}, {<<"C1", "2024-01-15">>}, {"A", "B"},
                     {"present", "late"}, Markers, Payloads({"A", "B"}, {"absent"}))

SpecLast == InitWith(MaxLastCalls) /\ [][NextLast]_vars

\* one caller at a time over two dates of a course, every remote request
\* answered ok and no payload naming a student twice, so that every remote
\* write succeeds; the cache write may fail (quota)
MirrorKeys == {<<"C1", "2024-01-15">>, <<"C1", "2024-01-16">>}

DistinctPayloads(Ss, Sts) ==
  {data \in Payloads(Ss, Sts) :
     \A i, j \in 1..Len(data) : i # j => data[i].studentId # data[j].studentId}

NextMirror ==
  \/ \E k \in MirrorKeys, s \in {"A", "B"}, st \in {"present", "late"},
        m \in Markers, ok \in BOOLEAN :
       Service(markSingleAttendance(1, k[1], s, k[2], st, m, ok))
  \/ Service(singleSelect(1, "ok"))
  \/ Service(singleUpdate(1, "ok"))
  \/ Service(singleInsert(1, "ok"))
  \/ \E k \in MirrorKeys, data \in DistinctPayloads({"A", "B"}, {"absent"}),
        m \in Markers, ok \in BOOLEAN :
       Service(markAttendance(1, k[1], k[2], data, m, ok))
  \/ Service(bulkDelete(1, "ok"))
  \/ Service(bulkInsert(1, "ok"))

SpecMirror == InitWith(MaxMirrorCalls) /\ [][NextMirror]_vars

\* the store reachable: every request is answered, and an insert is rejected
\* only by UNIQUE(course_id, student_id, date).  Bulk marks of one (course,
\* date) in slot 1, no payload naming a student twice, and single marks of
\* the same (course, date) in slot 2 while a bulk mark is in flight
NextReach ==
  \/ \E data \in DistinctPayloads({"A", "B"}, {"absent"}), ok \in BOOLEAN :
       Service(markAttendance(1, "C1", "2024-01-15", data, "I1", ok))
  \/ Service(bulkDelete(1, "ok"))
  \/ Service(bulkInsert(1, "ok"))
  \/ \E s \in {"A", "B"}, st \in {"present", "late"}, ok \in BOOLEAN :
       Service(markSingleAttendance(2, "C1", s, "2024-01-15", st, "I2", ok))
  \/ Service(singleSelect(2, "ok"))
  \/ Service(singleUpdate(2, "ok"))
  \/ Service(singleInsert(2, "ok"))

SpecReach == InitWith(MaxReachCalls) /\ [][NextReach]_vars

\* ------------------------------------------------------------------ claims
Done(p, op) == pc[p] = "done" /\ call[p].op = op

MarkOps == {"markSingleAttendance", "markAttendance"}

RemoteRequests == {"select", "update", "insert", "delete", "query", "enrollments"}

Failures == {"error", "throw", "conflict"}

\* the responses of the call's requests, in order
Responses(p) == [i \in 1..Len(trace[p]) |-> trace[p][i].res]

\* the students a payload names
Named(attendanceData) ==
  {attendanceData[i].studentId : i \in 1..Len(attendanceData)}

\* C1: the table never holds two rows with the same course, student and
\* date, whatever single and bulk marks ran and however they interleaved
C1_Uniqueness ==
  \A r1, r2 \in remote :
    (r1.course_id = r2.course_id /\ r1.student_id = r2.student_id
       /\ r1.date = r2.date) => r1 = r2

\* C1 witness: a single mark found no row, lost the race to another insert of
\* its triple and was rejected, and a bulk mark naming a student twice was
\* rejected too, with a row in the table
C1_Witness ==
  \E p, q \in Procs :
    /\ Done(p, "markSingleAttendance")
    /\ Responses(p) = <<"ok", "none", "conflict">>
    /\ Done(q, "markAttendance")
    /\ Len(call[q].attendanceData) = 2
    /\ Cardinality(Named(call[q].attendanceData)) = 1
    /\ Len(trace[q]) = 3
    /\ Responses(q)[3] = "conflict"
    /\ remote # {}

\* C2: a bulk mark whose delete and insert both succeeded leaves in its
\* (course, date) exactly one row per student of the payload, with the
\* payload's status and marker, and no row of any other student
C2_BulkOverwrite ==
  \A p \in Procs :
    (Done(p, "markAttendance") /\ Responses(p) = <<"ok", "ok", "ok">>) =>
      LET c == call[p]
          part == Partition(remote, c.courseId, c.date)
      IN /\ {r.student_id : r \in part} = Named(c.attendanceData)
         /\ Cardinality(part) = Len(c.attendanceData)
         /\ \A r \in part :
              /\ r.marked_by = c.markedBy
              /\ \E i \in 1..Len(c.attendanceData) :
                   /\ c.attendanceData[i].studentId = r.student_id
                   /\ c.attendanceData[i].status = r.status

\* C2 witness: the (course, date) holds rows of A, B and C, and a bulk mark
\* naming only A and B has written the cache and has its delete in flight
C2_Witness ==
  \E p \in Procs :
    /\ pc[p] = "delete"
    /\ Named(call[p].attendanceData) = {"A", "B"}
    /\ {r.student_id : r \in Partition(remote, call[p].courseId, call[p].date)}
         = {"A", "B", "C"}

\* the row of the call's (course, student, date) carries the call's mark
RowMarked(rows, c) ==
  \E r \in Matching(rows, c.courseId, c.studentId, c.date) :
    r.status = c.status /\ r.marked_by = c.markedBy

\* the cache entry of the call's (course, date) carries the call's mark
CacheMarked(storage, c) ==
  /\ storage[storageKey(c.courseId, c.date)] # << >>
  /\ c.studentId \in DOMAIN storage[storageKey(c.courseId, c.date)][1]
  /\ storage[storageKey(c.courseId, c.date)][1][c.studentId]
       = [status |-> c.status, markedBy |-> c.markedBy]

\* a single mark whose requests all succeeded
SingleSucceeded(p) ==
  /\ Done(p, "markSingleAttendance")
  /\ Responses(p) \in {<<"ok", "ok", "ok">>, <<"ok", "none", "ok">>}

\* C3: a single mark that succeeded leaves one row for its triple, with its
\* status and marker, and the same mark in the cache entry; and a single mark
\* made when the table and the cache already hold exactly that (the second of
\* two equal calls in a row) changes neither the table nor the cache
C3_Idempotent ==
  [][\A p \in Procs :
       /\ SingleSucceeded(p)' =>
            /\ RowMarked(remote', call'[p])
            /\ CacheMarked(localStorage', call'[p])
            /\ Cardinality(Matching(remote', call'[p].courseId,
                                    call'[p].studentId, call'[p].date)) = 1
       /\ (/\ call'[p].op = "markSingleAttendance"
           /\ pc'[p] # pc[p]
           /\ RowMarked(remote, call'[p])
           /\ CacheMarked(localStorage, call'[p])) =>
            remote' = remote /\ localStorage' = localStorage]_vars

\* C3 witness: the second of two calls, a single mark as present (which no
\* bulk mark writes here), has found the one row of the table already carrying
\* its status and marker, as the cache does, and has updated it
C3_Witness ==
  \E p \in Procs :
    /\ Done(p, "markSingleAttendance")
    /\ Responses(p) = <<"ok", "ok", "ok">>
    /\ budget = MaxCalls - 2
    /\ call[p].status = "present"
    /\ RowMarked(remote, call[p])
    /\ CacheMarked(localStorage, call[p])
    /\ Cardinality(remote) = 1


\* C4: no step of a single mark adds, removes or changes a row of another
\* student, course or date, and none removes or re-keys the row of its own
\* triple: only that row's status and marker may change
C4_SingleFrame ==
  [][\A p \in Procs :
       (call'[p].op = "markSingleAttendance" /\ pc'[p] # pc[p]) =>
         LET c == call'[p]
             target == <<c.courseId, c.studentId, c.date>>
         IN /\ {r \in remote : Triple(r) # target}
                 = {r \in remote' : Triple(r) # target}
            /\ \A r \in remote :
                 Triple(r) = target =>
                   \E n \in remote' : n.id = r.id /\ Triple(n) = target]_vars

\* C4 witness: after a bulk mark of A and B, a single mark has changed A's row
\* while B's row is still absent and another (course, date) holds a row too
C4_Witness ==
  \E p \in Procs :
    /\ Done(p, "markSingleAttendance")
    /\ Responses(p) = <<"ok", "ok", "ok">>
    /\ call[p].status = "late"
    /\ RowMarked(remote, call[p])
    /\ \E r \in Partition(remote, call[p].courseId, call[p].date) :
         r.student_id # call[p].studentId /\ r.status = "absent"
    /\ \E r \in remote : r.course_id # call[p].courseId \/ r.date # call[p].date

\* a read of (course, date) whose remote query failed
ReadFailed(p) ==
  /\ Done(p, "getAttendanceRecords")
  /\ call[p].date # Undefined
  /\ Responses(p)[1] \in Failures

\* C5: a read of (course, date) whose remote query failed returns, without
\* throwing, one record per student id of the cache entry of that key, with
\* the entry's status and marker and the requested course and date, and
\* nothing else; the empty set when the key has no entry
C5_FallbackCorrect ==
  \A p \in Procs :
    ReadFailed(p) =>
      LET c == call[p]
          entry == localStorage[storageKey(c.courseId, c.date)]
          ids == IF entry = << >> THEN {} ELSE DOMAIN entry[1]
          recs == result[p].records
      IN /\ result[p].state = "returned"
         /\ {r.studentId : r \in recs} = ids
         /\ Cardinality(recs) = Cardinality(ids)
         /\ \A r \in recs :
              /\ r.courseId = c.courseId
              /\ r.date = NewDate(c.date)
              /\ r.status = entry[1][r.studentId].status
              /\ r.markedBy = entry[1][r.studentId].markedBy

\* C5 witness: a failed read has returned the two records of a cache entry
C5_Witness ==
  \E p \in Procs :
    /\ ReadFailed(p)
    /\ Cardinality(result[p].records) = 2
    /\ \E r \in result[p].records : r.status = "late"

\* C6: whatever the enrollment join answers, the roster is returned, never
\* thrown and never empty; when the join failed, threw or had no rows it is
\* the fixed roster of five
C6_RosterFailSoft ==
  \A p \in Procs :
    Done(p, "getCourseStudents") =>
      /\ result[p].state = "returned"
      /\ Len(result[p].students) > 0
      /\ Responses(p)[1] \in {"error", "throw", "empty"} =>
           /\ result[p].students = mockStudents
           /\ Len(result[p].students) = 5
           /\ \A i, j \in 1..5 :
                i # j => result[p].students[i].id # result[p].students[j].id

\* C6 witness: the join succeeded with no rows and the fixed roster came back
C6_Witness ==
  \E p \in Procs :
    /\ Done(p, "getCourseStudents")
    /\ Responses(p)[1] = "empty"
    /\ Len(result[p].students) = 5

\* a mark one of whose remote requests failed
RemoteFailed(p) ==
  /\ pc[p] = "done"
  /\ call[p].op \in MarkOps
  /\ \E i \in 1..Len(trace[p]) :
       trace[p][i].req \in RemoteRequests /\ trace[p][i].res \in Failures

C8_ThrowsOnDbError ==
  \A p \in Procs :
    Done(p, "markSingleAttendance") =>
      /\ SingleSucceeded(p) => result[p] = Bool(TRUE)
      /\ RemoteFailed(p) =>
           result[p] = Threw /\ CacheMarked(localStorage, call[p])

\* C9: a mark issues no remote request before its cache write, and once the
\* cache write is made the entry of its (course, date) carries the mark for
\* the rest of the call, whatever the remote requests answer: the student's
\* entry for a single mark, exactly the payload's students for a bulk mark
C9_WriteAhead ==
  \A p \in Procs :
    (call[p].op \in MarkOps /\ pc[p] # "idle") =>
      LET c == call[p]
          entry == localStorage[storageKey(c.courseId, c.date)]
      IN /\ trace[p][1].req = "setItem"
         /\ \A i \in 2..Len(trace[p]) : trace[p][i].req \in RemoteRequests
         /\ Len(trace[p]) > 1 => trace[p][1].res = "ok"
         /\ trace[p][1].res = "ok" =>
              /\ entry # << >>
              /\ c.op = "markSingleAttendance" => CacheMarked(localStorage, c)
              /\ c.op = "markAttendance" =>
                   /\ DOMAIN entry[1] = Named(c.attendanceData)
                   /\ \A s \in DOMAIN entry[1] :
                        /\ entry[1][s].markedBy = c.markedBy
                        /\ \E i \in 1..Len(c.attendanceData) :
                             /\ c.attendanceData[i].studentId = s
                             /\ c.attendanceData[i].status = entry[1][s].status

\* C9 witness: a single mark whose existence check threw has ended with its
\* mark in the cache and no row in the table
C9_Witness ==
  \E p \in Procs :
    /\ Done(p, "markSingleAttendance")
    /\ Responses(p) = <<"ok", "throw">>
    /\ CacheMarked(localStorage, call[p])
    /\ remote = {}

\* a read whose remote query succeeded
ReadSucceeded(p) ==
  Done(p, "getAttendanceRecords") /\ Responses(p)[1] = "ok"

\* C10: a read whose remote query succeeded returns the rows of the table for
\* its course (and date), the empty set when there are none, whatever the
\* cache holds; and any read returns rows of the table only or records decoded
\* from the cache only
C10_EmptyIsAuthoritative ==
  \A p \in Procs :
    /\ ReadSucceeded(p) =>
         /\ result[p].records \subseteq remote
         /\ \A r \in remote :
              (r.course_id = call[p].courseId
                 /\ (call[p].date # Undefined => r.date = call[p].date))
                => r \in result[p].records
    /\ Done(p, "getAttendanceRecords") =>
         \/ \A r \in result[p].records : r.student_id # Undefined
         \/ \A r \in result[p].records : r.studentId # Undefined

\* C10 witness: a read that succeeded with no rows has returned the empty set
\* although the cache entry of its key holds a student
C10_Witness ==
  \E p \in Procs :
    /\ ReadSucceeded(p)
    /\ call[p].date # Undefined
    /\ result[p].records = {}
    /\ localStorage[storageKey(call[p].courseId, call[p].date)] # << >>
    /\ DOMAIN localStorage[storageKey(call[p].courseId, call[p].date)][1] # {}

\* a read of the marked dates resolves while slot 1 holds the last bulk mark,
\* of a roster that is not empty, for the same course, which returned true
DatesReadAfterBulk ==
  /\ pc[2] = "dates" /\ pc'[2] = "done"
  /\ Done(1, "markAttendance") /\ result[1] = Bool(TRUE)
  /\ Len(call[1].attendanceData) > 0
  /\ call[1].courseId = call[2].courseId

\* the list holds exactly the dates course c has rows for, each once, latest
\* first
MarkedDatesOf(dates, rows, c) ==
  /\ {dates[i] : i \in 1..Len(dates)} = DatesOf(rows, c)
  /\ \A i, j \in 1..Len(dates) : i < j => DateRank(dates[i]) > DateRank(dates[j])

StudentOf(r) == IF r.student_id # Undefined THEN r.student_id ELSE r.studentId

\* the records of the view that carry `status`
WithStatus(status) ==
  {i \in 1..Len(modal.attendanceRecords) :
     modal.attendanceRecords[i].status = status}

\* the numeral of n tenths, one decimal
Tenths(n) == ToString(n \div 10) \o "." \o ToString(n % 10)

\* C12: the panel's marked count is the number of records; the rate is 0 when
\* nothing is marked (then, with an empty roster, unmarked is 0 too), else the
\* share of present and late records among the marked ones as a percentage
\* rounded to one decimal
C12_AttendanceRate ==
  shown.rendered =>
    LET marked == Len(modal.attendanceRecords)
        attended == Cardinality(WithStatus("present") \cup WithStatus("late"))
    IN /\ shown.stats.markedStudents = marked
       /\ marked = 0 =>
            /\ shown.stats.attendanceRate = "0"
            /\ Len(modal.students) = 0 => shown.stats.unmarked = 0
       /\ marked > 0 =>
            \E n \in 0..1000 :
              /\ shown.stats.attendanceRate = Tenths(n)
              /\ 2 * (n * marked - 1000 * attended) \in -marked..marked

\* C12 witness: one present record out of one marked, roster of five: 1
\* present, 1 marked, 4 unmarked, rate 100.0
C12_Witness ==
  /\ shown.rendered
  /\ Len(modal.students) = 5
  /\ Len(modal.attendanceRecords) = 1
  /\ shown.stats = [totalStudents |-> 5, markedStudents |-> 1, present |-> 1,
                     late |-> 0, absent |-> 0, unmarked |-> 4,
                     attendanceRate |-> "100.0"]

\* C13: the panel's unmarked count is max(0, roster size - marked count)
C13_UnmarkedNotNegative ==
  shown.rendered =>
    LET d == Len(modal.students) - Len(modal.attendanceRecords)
    IN shown.stats.unmarked = IF d > 0 THEN d ELSE 0

\* the last record of the list for student s
LastOf(s) ==
  modal.attendanceRecords[
    CHOOSE i \in 1..Len(modal.attendanceRecords) :
      /\ StudentOf(modal.attendanceRecords[i]) = s
      /\ \A j \in 1..Len(modal.attendanceRecords) :
           StudentOf(modal.attendanceRecords[j]) = s => j <= i]

\* C14: a student with two records is counted once, in the marked count and in
\* the status counts, under the status of the student's last record, which is
\* also the status of the student's row
C14_LastRecordWins ==
  shown.rendered =>
    LET marked == {StudentOf(modal.attendanceRecords[i]) :
                     i \in 1..Len(modal.attendanceRecords)}
        Of(status) == Cardinality({s \in marked : LastOf(s).status = status})
    IN /\ shown.stats.markedStudents = Cardinality(marked)
       /\ shown.stats.present = Of("present")
       /\ shown.stats.late = Of("late")
       /\ shown.stats.absent = Of("absent")
       /\ \A i \in 1..Len(modal.students) :
            (modal.students[i].id \in marked
               /\ \E j \in 1..Len(modal.attendanceRecords) :
                    modal.attendanceRecords[j].student_id = modal.students[i].id)
              => shown.status[i] = LastOf(modal.students[i].id).status

\* a handler of the view ends in this step
Ends(p, kind) == task[p].kind = kind /\ task'[p] = NoTask

\* the view's record list holds a record of student s with status st
Shows(attendanceRecords, s, st) ==
  \E i \in 1..Len(attendanceRecords) :
    StudentOf(attendanceRecords[i]) = s /\ attendanceRecords[i].status = st

\* C15 the operator always sees the mark: when a single mark of student s
\* with status st has completed (write, then re-read) while the date it was
\* made for is still the selected one and no other handler is in flight,
\* the view's record list shows s with status st (whether or not the remote
\* write succeeded)
C15_MarkShown ==
  [][\A p \in Procs :
       /\ Ends(p, "markAttendance") /\ task[p].step = "reload"
       /\ task[p].date = modal.selectedDate
       /\ \A q \in Procs \ {p} : task[q] = NoTask
       => Shows(modal'.attendanceRecords, task[p].studentId, task[p].status)]_vars

MarkKinds == {"markAttendance", "markAllPresent", "markAllAbsent"}

\* C16 write, then unconditional re-read: a mark handler of the view starts
\* with the write of the store; once the write has resolved, whatever its
\* result, the next thing that happens is the handler's read of the
\* currently selected date; the handler ends by replacing the view's records
\* with that read's result; and the view's records change in no other way
\* than by taking the result of a read
C16_WriteThenReread ==
  [][\A p \in Procs :
       /\ task[p] = NoTask /\ task'[p].kind \in MarkKinds
          => call'[p].op \in MarkOps /\ task'[p].step = "write"
       /\ task'[p].step = "reload" /\ task[p].step # "reload"
          => task[p].step = "write" /\ pc[p] = "done"
       /\ task[p].step = "write" /\ pc[p] = "done"
          => /\ call'[p].op = "getAttendanceRecords"
             /\ call'[p].courseId = modal.courseId
             /\ call'[p].date = modal.selectedDate
             /\ task'[p].step = "reload"
       /\ task[p].kind \in MarkKinds /\ task'[p] = NoTask
          => /\ task[p].step = "reload" /\ result[p].state = "returned"
             /\ modal'.attendanceRecords \in Listings(result[p].records)
       /\ modal'.attendanceRecords # modal.attendanceRecords
          => \E q \in Procs :
               /\ call[q].op = "getAttendanceRecords" /\ pc[q] = "done"
               /\ modal'.attendanceRecords \in Listings(result[q].records)]_vars

\* the ids of the students of a roster
RosterIds(students) == {students[i].id : i \in 1..Len(students)}

\* C20 observers agree: whenever the attendance tab is rendered, the row of
\* a roster student shows status st exactly when the view's record list
\* holds a record of that student with status st (a remote row or a record
\* decoded from the cache), and when every record is of a roster student
\* the number of rows showing a status is the statistics panel's count of
\* marked students
C20_ObserversAgree ==
  shown.rendered =>
    /\ \A i \in 1..Len(modal.students), st \in Statuses :
         shown.status[i] = st
           <=> Shows(modal.attendanceRecords, modal.students[i].id, st)
    /\ (\A i \in 1..Len(modal.attendanceRecords) :
          StudentOf(modal.attendanceRecords[i]) \in RosterIds(modal.students))
       => Cardinality({i \in 1..Len(modal.students) : shown.status[i] # Null})
            = shown.stats.markedStudents

\* slot p issues the request `req` in this step
Asks(p, req) ==
  LET n == Len(trace'[p])
  IN /\ n > 0 /\ trace'[p][n] = Event(req, "pending")
     /\ Len(trace[p]) # n \/ trace[p][n] # Event(req, "pending")

\* in this step handler p, of one of the kinds, starts the read of the
\* records of (courseId, date)
StartsRead(p, kinds, courseId, date) ==
  /\ task[p] = NoTask /\ task'[p].kind \in kinds
  /\ call'[p].op = "getAttendanceRecords"
  /\ call'[p].courseId = courseId /\ call'[p].date = date

\* while a handler of one of the kinds runs, the rosters held by the views
\* stay as they are, the enrollment join is not asked, and the only calls
\* are the read of the records and the statistics
OnlyTheRead(kinds) ==
  \A p \in Procs :
    task[p].kind \in kinds \/ task'[p].kind \in kinds
    => /\ modal'.students = modal.students
       /\ page'.courseStudents = page.courseStudents
       /\ ~Asks(p, "enrollments")
       /\ call'[p].op \in {"getAttendanceRecords", "getAttendanceStats"}

\* C17 as stated: a change of the selected date, in the course-management
\* view or on the Attendance page, starts the read of the records of the new
\* date, and the handler it starts leaves the roster alone and does not
\* call getCourseStudents
C17_DateChangeReadsOnly ==
  [][/\ modal'.selectedDate # modal.selectedDate
        => \E p \in Procs :
             StartsRead(p, {"loadAttendance"}, modal.courseId, modal'.selectedDate)
     /\ page'.selectedDate # page.selectedDate
        => \E p \in Procs :
             StartsRead(p, {"loadAttendanceRecords"}, page.selectedCourse,
                        page'.selectedDate)
     /\ OnlyTheRead({"loadAttendance", "loadAttendanceRecords"})]_vars

\* C17 amended: in the course-management view a change of the selected date
\* starts the read of the records of the new date, and the handler it starts
\* leaves the roster alone and does not call getCourseStudents
C17_ModalDateChangeReadsOnly ==
  [][/\ modal'.selectedDate # modal.selectedDate
        => \E p \in Procs :
             StartsRead(p, {"loadAttendance"}, modal.courseId, modal'.selectedDate)
     /\ OnlyTheRead({"loadAttendance"})]_vars

\* the view shows the records of a date selected after it was opened, and
\* the roster it was opened with
C17_Witness ==
  /\ modal.isOpen /\ modal.selectedDate = "2024-01-16"
  /\ \A p \in Procs : task[p] = NoTask
  /\ \E p \in Procs :
       /\ Done(p, "getAttendanceRecords") /\ call[p].date = "2024-01-16"
       /\ modal.attendanceRecords \in Listings(result[p].records)
  /\ Len(modal.attendanceRecords) = 1
  /\ Len(modal.students) = 2

\* in this step a loadCourses started by a signal of the topic resolves
SignalHandled(topic) ==
  \E i \in 1..Len(app.loading) :
    /\ app.loading[i] = topic
    /\ app'.loading = SubSeq(app.loading, 1, i - 1)
                        \o SubSeq(app.loading, i + 1, Len(app.loading))

SignalArrives ==
  /\ Len(app'.loading) > Len(app.loading)
  /\ app'.loading[Len(app'.loading)] # "loadData"

StudentChannels(user) ==
  {Channel("courses_changes", Null),
   Channel("notifications_changes", user.id),
   Channel("enrollments_changes", user.id)}

\* C19 subscription lifecycle: with nobody signed in no channel is
\* subscribed; with a user signed in the channels are one set, that of the
\* courses and of the user's notifications, every filter being the user's
\* id, with the enrollments channel in it only when the user is a student
C19_SubscriptionLifecycle ==
  /\ app.currentUser = NoUser => app.channels = {}
  /\ app.currentUser # NoUser
     => /\ {Channel("courses_changes", Null),
            Channel("notifications_changes", app.currentUser.id)}
             \subseteq app.channels
        /\ app.channels \subseteq StudentChannels(app.currentUser)
        /\ Channel("enrollments_changes", app.currentUser.id) \in app.channels
           => app.currentUser.role = "student"

\* the dates of a list
DatesIn(dates) == {dates[i] : i \in 1..Len(dates)}

\* C21 the history view stays consistent: when a single or bulk mark of the
\* view for date d has completed (write, then re-read) and the table holds a
\* row of the course for d, the history panel's list of marked dates
\* includes d
C21_HistoryHasMarkedDate ==
  [][\A p \in Procs :
       /\ task[p].kind \in MarkKinds /\ task'[p] = NoTask
       /\ \E r \in remote : r.course_id = modal.courseId /\ r.date = task[p].date
       => task[p].date \in DatesIn(modal'.attendanceDates)]_vars

\* C22 reads are not serialized or guarded: a date change starts its read
\* whatever reads are pending, and when a read of the view has resolved its
\* records are put in the view in the next step, whether or not the date it
\* was made for is still the selected one
C22_ReadsNotGuarded ==
  [][\A p \in Procs :
       /\ task[p].kind = "loadAttendance" /\ Resumes(p)
          => /\ task'[p] = NoTask
             /\ result[p].state = "returned"
             /\ modal'.attendanceRecords \in Listings(result[p].records)
             /\ modal'.selectedDate = modal.selectedDate
       /\ modal'.selectedDate # modal.selectedDate
          => \A q \in Procs : task[q].kind = "loadAttendance" => task'[q] = task[q]]_vars

\* the stale read: the date went from 2024-01-16 back to 2024-01-15 while the
\* read for 2024-01-16 was pending; that read resolved last, and with
\* nothing in flight the view shows a row of 2024-01-16 under 2024-01-15
C22_Witness ==
  /\ modal.selectedDate = "2024-01-15"
  /\ \A p \in Procs : task[p] = NoTask
  /\ Done(1, "getAttendanceRecords") /\ call[1].date = "2024-01-16"
  /\ Done(2, "getAttendanceRecords") /\ call[2].date = "2024-01-15"
  /\ Len(modal.attendanceRecords) = 1
  /\ modal.attendanceRecords[1].date = "2024-01-16"
  /\ modal.attendanceRecords \in Listings(result[1].records)

\* a bulk mark whose delete has resolved and whose insert has not
BetweenDeleteAndInsert(p) == call[p].op = "markAttendance" /\ pc[p] = "bulkInsert"

\* the response of the request that resolved last in the call
LastResponse(tr) == tr[Len(tr)].res

\* C23 the store does not serialize the writers of a partition: while a bulk
\* mark is between its delete and its insert, the existence check of a single
\* mark of the same course and date is answered from the table as the delete
\* left it, and its insert is carried out on that table, rejected only when
\* its triple is already there
C23_NotSerialized ==
  [][\A p, q \in Procs :
       /\ BetweenDeleteAndInsert(p) /\ pc'[p] = pc[p]
       /\ call[q].op = "markSingleAttendance"
       /\ call[q].courseId = call[p].courseId /\ call[q].date = call[p].date
       => /\ pc[q] = "select" /\ pc'[q] \in {"update", "insert"}
               /\ trace'[q][2].res \in {"ok", "none"}
             => call'[q].existingRecord
                  = SelectSingle(remote, "ok", call[q].courseId,
                                 call[q].studentId, call[q].date)
          /\ pc[q] = "insert" /\ pc'[q] = "done"
             => /\ LastResponse(trace'[q]) = "conflict"
                     => UniqueViolation(remote, call[q].courseId,
                                        call[q].studentId, call[q].date)
                /\ LastResponse(trace'[q]) = "ok"
                     => /\ remote \subseteq remote' /\ remote' # remote
                        /\ RowMarked(remote', call[q])]_vars

\* a single mark of A ran its existence check and its insert while the bulk
\* mark of the same date, which names A too, had deleted and not yet
\* inserted: the row in the table is the single mark's
C23_Witness ==
  \E p, q \in Procs :
    /\ BetweenDeleteAndInsert(p)
    /\ Len(trace[p]) = 3 /\ trace[p][2] = Event("delete", "ok")
    /\ "A" \in Named(call[p].attendanceData)
    /\ Done(q, "markSingleAttendance") /\ call[q].studentId = "A"
    /\ Len(trace[q]) = 3
    /\ trace[q][2] = Event("select", "none") /\ trace[q][3] = Event("insert", "ok")
    /\ Cardinality(remote) = 1 /\ RowMarked(remote, call[q])

\* the partition holds exactly the payload: one row per record of the
\* payload, with its student, its status and the marker
HoldsPayload(part, c) ==
  /\ Cardinality(part) = Len(c.attendanceData)
  /\ \A i \in 1..Len(c.attendanceData) :
       \E r \in part : /\ r.student_id = c.attendanceData[i].studentId
                       /\ r.status = c.attendanceData[i].status
                       /\ r.marked_by = c.markedBy
  /\ \A r \in part : \E i \in 1..Len(c.attendanceData) :
       r.student_id = c.attendanceData[i].studentId

\* C24 a bulk mark replaces its (course, date) as one unit: with one caller
\* at a time, once the call has returned the partition is what it was when
\* the call started or exactly the payload, and no insert was issued after a
\* delete that failed
C24_BulkAtomic ==
  \A p \in Procs :
    Done(p, "markAttendance") /\ Len(trace[p]) >= 2 =>
      LET part == Partition(remote, call[p].courseId, call[p].date)
      IN /\ part = call[p].before \/ HoldsPayload(part, call[p])
         /\ trace[p][2].res # "ok" => Len(trace[p]) = 2

\* the step is the last request of a single mark of s, answered ok
SingleWrites(p, s) ==
  /\ call[p].op = "markSingleAttendance" /\ call[p].studentId = s
  /\ pc[p] \in {"update", "insert"} /\ pc'[p] = "done"
  /\ LastResponse(trace'[p]) = "ok"

\* the step is the insert of a bulk mark naming s, answered ok
BulkWrites(p, s) ==
  /\ call[p].op = "markAttendance" /\ s \in Named(call[p].attendanceData)
  /\ pc[p] = "bulkInsert" /\ pc'[p] = "done"
  /\ LastResponse(trace'[p]) = "ok"

\* the statuses a payload gives to s
StatusesFor(attendanceData, s) ==
  {attendanceData[i].status :
     i \in {j \in 1..Len(attendanceData) : attendanceData[j].studentId = s}}

\* C25 last write wins per triple, with one caller at a time: a mark of
\* (c, s, d) whose remote write succeeded leaves exactly one row for the
\* triple, with the status and the marker of that mark, and any other step
\* leaves the status and the marker of the row of a triple as they were (or
\* removes the row), so that the row carries the mark of the operation that
\* wrote it last
C25_LastWriteWins ==
  [][\A p \in Procs, s \in Students :
       LET c == call[p]
           old == Matching(remote, c.courseId, s, c.date)
           new == Matching(remote', c.courseId, s, c.date)
       IN /\ SingleWrites(p, s)
             => /\ Cardinality(new) = 1
                /\ \A r \in new : r.status = c.status /\ r.marked_by = c.markedBy
          /\ BulkWrites(p, s)
             => /\ Cardinality(new) = 1
                /\ \A r \in new : /\ r.status \in StatusesFor(c.attendanceData, s)
                                   /\ r.marked_by = c.markedBy
          /\ (c.op \in MarkOps /\ ~SingleWrites(p, s) /\ ~BulkWrites(p, s))
             => \A r \in new : \E o \in old :
                  o.status = r.status /\ o.marked_by = r.marked_by]_vars

\* a bulk mark by I1 wrote A and B absent, then a single mark by I2 found A's
\* row and updated it: A's row carries the single mark, B's the bulk mark
C25_Witness ==
  /\ Done(1, "markSingleAttendance") /\ Responses(1) = <<"ok", "ok", "ok">>
  /\ call[1].studentId = "A" /\ call[1].status = "late" /\ call[1].markedBy = "I2"
  /\ \E a, b \in remote :
       /\ remote = {a, b}
       /\ a.student_id = "A" /\ a.status = "late" /\ a.marked_by = "I2"
       /\ b.student_id = "B" /\ b.status = "absent" /\ b.marked_by = "I1"

\* the marks the fallback read decodes from the cache entry of (c, d)
CacheMarks(c, d) ==
  {<<r.studentId, r.status, r.markedBy>> : r \in Fallback(c, d)}

\* the marks the remote read of (c, d) returns
RemoteMarks(c, d) ==
  {<<r.student_id, r.status, r.marked_by>> : r \in Query(remote, c, d)}

\* C26 the cache mirrors the table: from an empty table and an empty cache,
\* with one caller at a time and every remote write succeeding, whenever no
\* call is in flight the fallback read of a (course, date) decodes from the
\* cache the same (student, status, marker) as the remote read returns
C26_CacheMirrorsRemote ==
  Quiet => \A c \in Courses, d \in Dates : CacheMarks(c, d) = RemoteMarks(c, d)

\* after a bulk mark and a single mark that updated A's row, the cache entry
\* and the partition of 2024-01-16 both hold A late by I2 and B absent by I1
C26_Witness ==
  /\ Done(1, "markSingleAttendance") /\ Responses(1) = <<"ok", "ok", "ok">>
  /\ call[1].date = "2024-01-16"
  /\ CacheMarks("C1", "2024-01-16")
       = {<<"A", "late", "I2">>, <<"B", "absent", "I1">>}
  /\ RemoteMarks("C1", "2024-01-16") = CacheMarks("C1", "2024-01-16")

\* the mark operations of the service that have been called and have not
\* returned
MarksInFlight ==
  {p \in Procs : call[p].op \in MarkOps /\ pc[p] \notin {"idle", "done"}}

\* C27 the view serializes its writes: at most one mark operation, single or
\* bulk, issued by the course-management view is in flight at any time
C27_OneMarkInFlight == Cardinality(MarksInFlight) <= 1

\* C28 a successful bulk mark is persisted: with the store reachable and
\* rejecting only uniqueness violations, once no call is in flight a bulk
\* mark that returned true has left a row for every student of its payload,
\* however single marks of the same (course, date) interleaved with it
C28_BulkPersisted ==
  (Quiet /\ Done(1, "markAttendance") /\ result[1] = Bool(TRUE)) =>
    \A s \in Named(call[1].attendanceData) :
      Matching(remote, call[1].courseId, s, call[1].date) # {}

\* the object stored under attendance_{c}_{d}, the empty object when none
Snapshot(storage, c, d) ==
  IF storage[<<"attendance", c, d>>] = << >> THEN EmptyObject
  ELSE storage[<<"attendance", c, d>>][1]

\* every snapshot but that of (c, d) is as it was
OtherSnapshotsKept(c, d) ==
  \A k \in StorageKeys :
    k # <<"attendance", c, d>> => localStorage'[k] = localStorage[k]

\* C29 the shape of the cache write: a single mark of (c, s, d) puts its
\* status and marker in s's entry of the snapshot of (c, d) and keeps every
\* other entry of it; a bulk mark of (c, d) stores a snapshot holding exactly
\* the students of the payload, with the payload's status and the marker;
\* neither touches the snapshot of another (course, date), and no other step
\* of the service writes to the cache
C29_CacheWriteShape ==
  [][\A p \in Procs :
       LET c == call'[p]
           old == Snapshot(localStorage, c.courseId, c.date)
           new == Snapshot(localStorage', c.courseId, c.date)
           started == pc[p] \in {"idle", "done"} /\ pc'[p] \in {"select", "delete"}
       IN /\ started /\ pc'[p] = "select"
             => /\ DOMAIN new = (DOMAIN old) \cup {c.studentId}
                /\ new[c.studentId] = [status |-> c.status, markedBy |-> c.markedBy]
                /\ \A x \in (DOMAIN old) \ {c.studentId} : new[x] = old[x]
                /\ OtherSnapshotsKept(c.courseId, c.date)
          /\ started /\ pc'[p] = "delete"
             => /\ DOMAIN new = Named(c.attendanceData)
                /\ \A x \in DOMAIN new :
                     /\ new[x].status \in StatusesFor(c.attendanceData, x)
                     /\ new[x].markedBy = c.markedBy
                /\ OtherSnapshotsKept(c.courseId, c.date)
          /\ (\A q \in Procs : pc'[q] = pc[q] \/ pc[q] \notin {"idle", "done"}
                                \/ pc'[q] \notin {"select", "delete"})
             => localStorage' = localStorage]_vars

\* a bulk mark stored A and B under 2024-01-15 of C1, another mark wrote
\* under another key, and a single mark of A has just rewritten A's entry of
\* the first snapshot, B's entry still there
C29_Witness ==
  /\ pc[1] = "select" /\ call[1].studentId = "A" /\ call[1].status = "late"
  /\ call[1].courseId = "C1" /\ call[1].date = "2024-01-15"
  /\ DOMAIN Snapshot(localStorage, "C1", "2024-01-15") = {"A", "B"}
  /\ Snapshot(localStorage, "C1", "2024-01-15")["A"].status = "late"
  /\ Snapshot(localStorage, "C1", "2024-01-15")["B"].status = "absent"
  /\ \E k \in StorageKeys :
       k # <<"attendance", "C1", "2024-01-15">> /\ localStorage[k] # << >>

\* the rows of every other course or date
Elsewhere(rows, c, d) == rows \ Partition(rows, c, d)

\* C30 a bulk mark is confined to its partition: whatever the answers to its
\* delete and to its insert, no step of a bulk mark of (c, d) adds, removes
\* or changes a row of another course or of another date
C30_BulkConfined ==
  [][\A p \in Procs :
       (call[p].op = "markAttendance" /\ pc'[p] # pc[p]) =>
         Elsewhere(remote', call[p].courseId, call[p].date)
           = Elsewhere(remote, call[p].courseId, call[p].date)]_vars

\* a bulk mark of 2024-01-16 of C1 has deleted and inserted with rows of
\* 2024-01-15 of C1 in the table, which are still there
C30_Witness ==
  /\ Done(1, "markAttendance") /\ Responses(1) = <<"ok", "ok", "ok">>
  /\ call[1].courseId = "C1" /\ call[1].date = "2024-01-16"
  /\ Len(call[1].attendanceData) = 1
  /\ Cardinality(Partition(remote, "C1", "2024-01-16")) = 1
  /\ Cardinality(Partition(remote, "C1", "2024-01-15")) = 2
====
